---- MODULE Spec2Model ----
(***************************************************************************)
(* A model of the WebGUI Arduino library (src/src/WebGUI.cpp, WebGUI.h):   *)
(* the widget classes, the widget registry and the request dispatcher.     *)
(*                                                                         *)
(* An Arduino String is modelled as a sequence of one-character strings,   *)
(* indexed from 0 in the operators that mirror the String methods.         *)
(***************************************************************************)
EXTENDS Integers, Sequences, FiniteSets, TLC

VARIABLES
    platform,     \* the build: "ESP32" (WebServer handlers) or "STREAM" (processClient)
    widgets,      \* the GUIElement objects constructed by the sketch, by construction index
    nextID,       \* GUIElement::nextID
    elements,     \* WebGUI::elements, the registry: construction indices in registration order
    millis,       \* the value millis() returns
    client,       \* the connection: "none", "waiting" (accepted, its bytes there to read) or "closed"
    inbound,      \* what the client of the connection sent
    response,     \* what was written to the client of the connection
    trace,        \* the sketch's most recent calls on its widget: what was called, with what, and what came back
    backlog,      \* what the clients sent whose connections are pending behind the waiting one
    pageTitle,    \* WebGUI::pageTitle
    pageHeading,  \* WebGUI::pageHeading
    customCSS,    \* WebGUI::customCSS
    useCustomStyles,     \* WebGUI::useCustomStyles
    storage,      \* the storage strategy of the build: "Preferences", "FlashStorage" or "EEPROM"
    settingsInitialized, \* WebGUI::settingsInitialized
    preferences,  \* ESP32: WebGUI::preferences, "nullptr" or "open"
    nvs,          \* ESP32: what the preference store of namespace "webgui" holds
    flash,        \* Nano 33 IoT: the FlashSettings block flash_settings holds
    eeprom,       \* UNO R4 WiFi: the EEPROM, the bytes that are not in the erased state
    wifi,         \* the WiFi object, WebGUI::apMode and where the sketch's connect call stands
    reader        \* processClient under way: its locals, and the socket of its client

page == <<pageTitle, pageHeading, customCSS, useCustomStyles>>

persistent == <<storage, settingsInitialized, preferences, nvs, flash, eeprom>>

board == <<platform, wifi, reader>>

vars == <<board, widgets, nextID, elements, millis, client, inbound, response, trace,
          backlog, page, persistent>>

connection == <<client, inbound, response>>

----------------------------------------------------------------------------
(* Bounds of the model *)

\* widgets the sketch constructs
MaxWidgets == 2
\* segments in the query string of one set-value request
MaxPairs == 2
\* calls remembered in trace by the widget-level specification
MaxTrace == 4
\* largest value of millis()
MaxMillis == 1
\* connections pending at the server behind the one being served
MaxBacklog == 1

----------------------------------------------------------------------------
(* Arduino String *)

Min(a, b) == IF a < b THEN a ELSE b

\* a C int converted to unsigned int: a negative n becomes 2^32 + n, written
\* here as 2^31 + n, which like it exceeds every length and keeps the order
ToUnsigned(n) == IF n < 0 THEN 2147483647 + (n + 1) ELSE n

\* does pat occur in s at 0-based position i
MatchesAt(s, pat, i) ==
    /\ i >= 0
    /\ i + Len(pat) <= Len(s)
    /\ \A k \in 1..Len(pat) : s[i + k] = pat[k]

RECURSIVE ScanFor(_, _, _)
ScanFor(s, pat, i) ==
    IF i + Len(pat) > Len(s) THEN -1
    ELSE IF MatchesAt(s, pat, i) THEN i
    ELSE ScanFor(s, pat, i + 1)

\* String::indexOf(pat, from): the first 0-based position >= from, or -1
IndexOfFrom(s, pat, from) == IF from >= Len(s) THEN -1 ELSE ScanFor(s, pat, from)

IndexOf(s, pat) == IndexOfFrom(s, pat, 0)

\* String::substring(left, right) with its unsigned parameters
Substring(s, left, right) ==
    LET l0 == ToUnsigned(left)
        r0 == ToUnsigned(right)
        l  == IF l0 > r0 THEN r0 ELSE l0
        r1 == IF l0 > r0 THEN l0 ELSE r0
        r  == IF r1 > Len(s) THEN Len(s) ELSE r1
    IN  IF l >= Len(s) THEN <<>> ELSE SubSeq(s, l + 1, r)

\* String::substring(left)
SubstringFrom(s, left) == Substring(s, left, Len(s))

Digits == <<"0", "1", "2", "3", "4", "5", "6", "7", "8", "9">>

IsDigit(c) == \E d \in 1..10 : Digits[d] = c

DigitValue(c) == (CHOOSE d \in 1..10 : Digits[d] = c) - 1

RECURSIVE NatToStr(_)
NatToStr(n) == IF n < 10 THEN <<Digits[n + 1]>>
               ELSE NatToStr(n \div 10) \o <<Digits[(n % 10) + 1]>>

\* String(int)
IntToStr(n) == IF n < 0 THEN <<"-">> \o NatToStr(-n) ELSE NatToStr(n)

RECURSIVE ParseDigits(_, _, _)
ParseDigits(s, i, acc) ==
    IF i <= Len(s) /\ IsDigit(s[i])
    THEN ParseDigits(s, i + 1, acc * 10 + DigitValue(s[i]))
    ELSE acc

RECURSIVE SkipSpaces(_, _)
SkipSpaces(s, i) == IF i <= Len(s) /\ s[i] = " " THEN SkipSpaces(s, i + 1) ELSE i

\* String::toInt, that is atol: leading blanks, an optional sign, then the
\* digits up to the first other character; 0 when there is no digit
ToInt(s) ==
    LET i == SkipSpaces(s, 1)
    IN  IF i <= Len(s) /\ s[i] = "-" THEN 0 - ParseDigits(s, i + 1, 0)
        ELSE IF i <= Len(s) /\ s[i] = "+" THEN ParseDigits(s, i + 1, 0)
        ELSE ParseDigits(s, i, 0)

\* the Arduino constrain(amt, low, high) macro
Constrain(amt, low, high) ==
    IF amt < low THEN low ELSE IF amt > high THEN high ELSE amt

----------------------------------------------------------------------------
(* GUIElement and the five widget classes *)

Chars_element == <<"e", "l", "e", "m", "e", "n", "t">>

\* an identifier that does not take the counter in
ElementID_fixed(n) == Chars_element \o <<"0">>

\* GUIElement::GUIElement: id = "element" + String(nextID++)
ElementID(n) == Chars_element \o IntToStr(n)

Button_new(label, n) ==
    [kind |-> "Button", id |-> ElementID(n), label |-> label,
     pressed |-> FALSE, pressedFlag |-> FALSE, lastPressTime |-> 0]

Toggle_new(label, n) ==
    [kind |-> "Toggle", id |-> ElementID(n), label |-> label,
     state |-> FALSE, stateChanged |-> FALSE]

\* the constructor stores defaultValue as it is given
Slider_new(label, n, minValue, maxValue, defaultValue) ==
    [kind |-> "Slider", id |-> ElementID(n), label |-> label,
     minValue |-> minValue, maxValue |-> maxValue,
     currentValue |-> defaultValue, valueChanged |-> FALSE]

TextBox_new(label, n) ==
    [kind |-> "TextBox", id |-> ElementID(n), label |-> label,
     textValue |-> <<>>, placeholderText |-> <<>>, valueChanged |-> FALSE,
     lastValue |-> <<>>]

SensorStatus_new(label, n) ==
    [kind |-> "SensorStatus", id |-> ElementID(n), label |-> label,
     displayValue |-> <<"0">>]

(* Button *)

\* a press that switches the Button on instead of inverting it
Button_handleUpdate_latch(b, value, now) ==
    IF value = <<"1">>
    THEN [b EXCEPT !.pressed = TRUE, !.pressedFlag = TRUE, !.lastPressTime = now]
    ELSE b

Button_handleUpdate(b, value, now) ==
    IF value = <<"1">>
    THEN [b EXCEPT !.pressed = ~b.pressed, !.pressedFlag = TRUE, !.lastPressTime = now]
    ELSE b

Button_getValue(b) == IF b.pressed THEN <<"1">> ELSE <<"0">>

\* returns the object after the call and the value returned
Button_wasPressed(b) ==
    IF b.pressedFlag
    THEN [self |-> [b EXCEPT !.pressedFlag = FALSE], ret |-> TRUE]
    ELSE [self |-> b, ret |-> FALSE]

Button_setState(b, state) == [b EXCEPT !.pressed = state]

(* Toggle *)

Chars_true == <<"t", "r", "u", "e">>
Chars_false == <<"f", "a", "l", "s", "e">>

\* the flag set on every update, changed or not
Toggle_handleUpdate_rearm(t, value) ==
    [t EXCEPT !.state = (value = <<"1">> \/ value = Chars_true), !.stateChanged = TRUE]

\* an update that takes "1" alone for on
Toggle_handleUpdate_oneOnly(t, value) ==
    IF (value = <<"1">>) # t.state
    THEN [t EXCEPT !.state = (value = <<"1">>), !.stateChanged = TRUE]
    ELSE t

Toggle_handleUpdate(t, value) ==
    LET newState == (value = <<"1">> \/ value = Chars_true)
    IN  IF newState # t.state
        THEN [t EXCEPT !.state = newState, !.stateChanged = TRUE]
        ELSE t

Toggle_getValue(t) == IF t.state THEN <<"1">> ELSE <<"0">>

\* a read that leaves the flag set
Toggle_wasToggled_sticky(t) == [self |-> t, ret |-> t.stateChanged]

Toggle_wasToggled(t) ==
    IF t.stateChanged
    THEN [self |-> [t EXCEPT !.stateChanged = FALSE], ret |-> TRUE]
    ELSE [self |-> t, ret |-> FALSE]

Toggle_setState(t, newState) == [t EXCEPT !.state = newState]

(* Slider *)

Slider_handleUpdate(s, value) ==
    LET newValue == ToInt(value)
    IN  IF newValue # s.currentValue
        THEN [s EXCEPT !.currentValue = Constrain(newValue, s.minValue, s.maxValue),
                       !.valueChanged = TRUE]
        ELSE s

Slider_getValue(s) == IntToStr(s.currentValue)

Slider_setValue(s, value) ==
    [s EXCEPT !.currentValue = Constrain(value, s.minValue, s.maxValue)]

Slider_setRange(s, min, max) ==
    [s EXCEPT !.minValue = min, !.maxValue = max,
              !.currentValue = Constrain(s.currentValue, min, max)]

(* TextBox *)

\* the flag latched: set by a new text and never cleared
TextBox_handleUpdate_latch(t, value) ==
    [t EXCEPT !.lastValue = t.textValue, !.textValue = value,
              !.valueChanged = (t.valueChanged \/ t.textValue # value)]

TextBox_handleUpdate(t, value) ==
    [t EXCEPT !.lastValue = t.textValue, !.textValue = value,
              !.valueChanged = (t.textValue # value)]

TextBox_getValue(t) == t.textValue

\* the text replaced and the flag left as it is
TextBox_setValue_keep(t, value) == [t EXCEPT !.textValue = value]

TextBox_setValue(t, value) == [t EXCEPT !.textValue = value, !.valueChanged = FALSE]

\* the flag reported and left as it is
TextBox_wasChanged_noReset(t) == [self |-> t, ret |-> t.valueChanged]

TextBox_wasChanged(t) ==
    [self |-> [t EXCEPT !.valueChanged = FALSE], ret |-> t.valueChanged]

\* String::lastIndexOf(c): the last 0-based position of c, or -1
LastIndexOf(s, c) ==
    IF \E k \in 1..Len(s) : s[k] = c
    THEN (CHOOSE k \in 1..Len(s) : s[k] = c /\ \A j \in (k + 1)..Len(s) : s[j] # c) - 1
    ELSE -1

\* the first loop of isValidIPAddress from position i on: the dots counted
\* at its end, or -1 where it returns false
RECURSIVE CountDots(_, _, _, _)
CountDots(ip, i, dotCount, lastDot) ==
    IF i >= Len(ip) THEN dotCount
    ELSE IF ip[i + 1] = "."
    THEN IF dotCount + 1 > 3 \/ i = lastDot + 1 \/ i = 0 \/ i = Len(ip) - 1 THEN -1
         ELSE CountDots(ip, i + 1, dotCount + 1, i)
    ELSE IF ~IsDigit(ip[i + 1]) THEN -1
    ELSE CountDots(ip, i + 1, dotCount, lastDot)

\* the check of an octet with a leading zero let through
OctetOK_leadingZero(octet) ==
    /\ Len(octet) # 0 /\ Len(octet) <= 3
    /\ ToInt(octet) >= 0 /\ ToInt(octet) <= 255

\* the octet of a group of digits is in range and has no leading zero
OctetOK(octet) ==
    /\ Len(octet) # 0 /\ Len(octet) <= 3
    /\ ToInt(octet) >= 0 /\ ToInt(octet) <= 255
    /\ ~(Len(octet) > 1 /\ octet[1] = "0")

\* the second loop of isValidIPAddress from octet number dot on
RECURSIVE CheckOctets(_, _, _)
CheckOctets(ip, dot, start) ==
    IF dot >= 4 THEN TRUE
    ELSE LET end == IF dot = 3 THEN Len(ip) ELSE IndexOfFrom(ip, <<".">>, start)
         IN  IF end = -1 THEN FALSE
             ELSE IF ~OctetOK(Substring(ip, start, end)) THEN FALSE
             ELSE CheckOctets(ip, dot + 1, end + 1)

\* TextBox::isValidIPAddress(ip)
TextBox_isValidIPAddress(ip) ==
    IF Len(ip) = 0 THEN FALSE
    ELSE IF CountDots(ip, 0, 0, -1) # 3 THEN FALSE
    ELSE CheckOctets(ip, 0, 0)

\* TextBox::setIPAddress: a text that is no address is not taken
TextBox_setIPAddress(t, ip) ==
    IF TextBox_isValidIPAddress(ip) THEN TextBox_setValue(t, ip) ELSE t

\* the bitwise & of two unsigned values
RECURSIVE BitAnd(_, _)
BitAnd(a, b) ==
    IF a = 0 \/ b = 0 THEN 0 ELSE (a % 2) * (b % 2) + 2 * BitAnd(a \div 2, b \div 2)

\* a uint32_t, kept as its two 16-bit halves
Half == 2^16

Word(b0, b1, b2, b3) == [hi |-> b0 * 256 + b1, lo |-> b2 * 256 + b3]

\* ~w
WordNot(w) == [hi |-> Half - 1 - w.hi, lo |-> Half - 1 - w.lo]

\* w + 1, modulo 2^32
WordInc(w) == IF w.lo = Half - 1 THEN [hi |-> (w.hi + 1) % Half, lo |-> 0]
              ELSE [hi |-> w.hi, lo |-> w.lo + 1]

\* a & b
WordAnd(a, b) == [hi |-> BitAnd(a.hi, b.hi), lo |-> BitAnd(a.lo, b.lo)]

\* the loop of isValidSubnetMask that fills parts[] from octet number i on
RECURSIVE SubnetParts(_, _, _)
SubnetParts(subnet, i, start) ==
    IF i >= 4 THEN <<>>
    ELSE LET end == IF i = 3 THEN Len(subnet) ELSE IndexOfFrom(subnet, <<".">>, start)
         IN  <<ToInt(Substring(subnet, start, end))>> \o SubnetParts(subnet, i + 1, end + 1)

\* TextBox::isValidSubnetMask
TextBox_isValidSubnetMask(subnet) ==
    IF ~TextBox_isValidIPAddress(subnet) THEN FALSE
    ELSE LET parts == SubnetParts(subnet, 0, 0)
             mask == Word(parts[1], parts[2], parts[3], parts[4])
             inverted == WordNot(mask)
         IN  WordAnd(inverted, WordInc(inverted)) = [hi |-> 0, lo |-> 0]

Chars_255_255_255_0 ==
    <<"2", "5", "5", ".", "2", "5", "5", ".", "2", "5", "5", ".", "0">>

\* TextBox::validateNetworkConfig
TextBox_validateNetworkConfig(ip, subnet, gateway) ==
    IF ~TextBox_isValidIPAddress(ip) \/ ~TextBox_isValidSubnetMask(subnet)
       \/ ~TextBox_isValidIPAddress(gateway)
    THEN FALSE
    ELSE LET ipPrefix == Substring(ip, 0, LastIndexOf(ip, "."))
             gatewayPrefix == Substring(gateway, 0, LastIndexOf(gateway, "."))
         IN  IF subnet = Chars_255_255_255_0 THEN ipPrefix = gatewayPrefix ELSE TRUE

(* SensorStatus *)

SensorStatus_handleUpdate(s, value) == [s EXCEPT !.displayValue = value]

SensorStatus_getValue(s) == s.displayValue

\* setValue(String) and setValue(const char*)
SensorStatus_setValue(s, value) == [s EXCEPT !.displayValue = value]

\* setValue(int)
SensorStatus_setValueInt(s, value) == [s EXCEPT !.displayValue = IntToStr(value)]

\* setValue(bool)
SensorStatus_setValueBool(s, value) ==
    [s EXCEPT !.displayValue = IF value THEN Chars_true ELSE Chars_false]

(* the virtual calls *)

handleUpdate(w, value, now) ==
    CASE w.kind = "Button" -> Button_handleUpdate(w, value, now)
      [] w.kind = "Toggle" -> Toggle_handleUpdate(w, value)
      [] w.kind = "Slider" -> Slider_handleUpdate(w, value)
      [] w.kind = "TextBox" -> TextBox_handleUpdate(w, value)
      [] w.kind = "SensorStatus" -> SensorStatus_handleUpdate(w, value)

getValue(w) ==
    CASE w.kind = "Button" -> Button_getValue(w)
      [] w.kind = "Toggle" -> Toggle_getValue(w)
      [] w.kind = "Slider" -> Slider_getValue(w)
      [] w.kind = "TextBox" -> TextBox_getValue(w)
      [] w.kind = "SensorStatus" -> SensorStatus_getValue(w)

\* the flag a consuming read reports: pressedFlag, stateChanged or valueChanged
HasFlag(w) == w.kind \in {"Button", "Toggle", "TextBox"}

Flag(w) ==
    CASE w.kind = "Button" -> w.pressedFlag
      [] w.kind = "Toggle" -> w.stateChanged
      [] w.kind = "TextBox" -> w.valueChanged

\* wasPressed, wasToggled or wasChanged, by the class of w
ConsumingRead(w) ==
    CASE w.kind = "Button" -> Button_wasPressed(w)
      [] w.kind = "Toggle" -> Toggle_wasToggled(w)
      [] w.kind = "TextBox" -> TextBox_wasChanged(w)

----------------------------------------------------------------------------
(* The request dispatcher *)

Chars_GET_set == <<"G", "E", "T", " ", "/", "s", "e", "t", "?">>
Chars_GET_get == <<"G", "E", "T", " ", "/", "g", "e", "t">>
Chars_OK == <<"O", "K">>
Chars_SaveStatus == <<"S", "a", "v", "e", " ", "S", "t", "a", "t", "u", "s">>
Chars_saved == <<"s", "a", "v", "e", "d">>
Chars_Saving == <<"S", "a", "v", "i", "n", "g">>
Chars_Ready == <<"R", "e", "a", "d", "y", " ", "t", "o", " ", "s", "a", "v", "e", " ",
                 "s", "e", "t", "t", "i", "n", "g", "s">>

\* the loop with two calls of handleUpdate on the widget it finds
UpdateFirstMatch_twice(reg, ws, paramName, paramValue, now) ==
    LET hits == {k \in 1..Len(reg) : ws[reg[k]].id = paramName}
    IN  IF hits = {} THEN ws
        ELSE LET k == CHOOSE h \in hits : \A j \in hits : h <= j
             IN  [ws EXCEPT ![reg[k]] = handleUpdate(handleUpdate(ws[reg[k]], paramValue, now),
                                                     paramValue, now)]

\* the loop "for (GUIElement* element : elements) if (element->getID() == paramName)
\* { element->handleUpdate(paramValue); break; }" of handleSetRequest and handleSet
UpdateFirstMatch(reg, ws, paramName, paramValue, now) ==
    LET hits == {k \in 1..Len(reg) : ws[reg[k]].id = paramName}
    IN  IF hits = {} THEN ws
        ELSE LET k == CHOOSE h \in hits : \A j \in hits : h <= j
             IN  [ws EXCEPT ![reg[k]] = handleUpdate(ws[reg[k]], paramValue, now)]

\* the loop left at the first parameter without a name and a '='
RECURSIVE SetParamLoop_stopAtMalformed(_, _, _, _, _, _)
SetParamLoop_stopAtMalformed(params, start, end, reg, ws, now) ==
    IF ~(start < Len(params)) THEN ws
    ELSE LET param  == IF end = -1 THEN SubstringFrom(params, start)
                       ELSE Substring(params, start, end)
             start2 == IF end = -1 THEN Len(params) ELSE end + 1
             end2   == IF end = -1 THEN -1 ELSE IndexOfFrom(params, <<"&">>, end + 1)
             eqPos  == IndexOf(param, <<"=">>)
         IN  IF eqPos > 0
             THEN SetParamLoop_stopAtMalformed(params, start2, end2, reg,
                      UpdateFirstMatch(reg, ws, Substring(param, 0, eqPos),
                                       SubstringFrom(param, eqPos + 1), now), now)
             ELSE ws

\* the while loop of handleSetRequest, from the values start and end hold on entry
RECURSIVE SetParamLoop(_, _, _, _, _, _)
SetParamLoop(params, start, end, reg, ws, now) ==
    IF ~(start < Len(params)) THEN ws
    ELSE LET param  == IF end = -1 THEN SubstringFrom(params, start)
                       ELSE Substring(params, start, end)
             start2 == IF end = -1 THEN Len(params) ELSE end + 1
             end2   == IF end = -1 THEN -1 ELSE IndexOfFrom(params, <<"&">>, end + 1)
             eqPos  == IndexOf(param, <<"=">>)
             ws2    == IF eqPos > 0
                       THEN UpdateFirstMatch(reg, ws, Substring(param, 0, eqPos),
                                             SubstringFrom(param, eqPos + 1), now)
                       ELSE ws
         IN  SetParamLoop(params, start2, end2, reg, ws2, now)

\* only the first parameter of the query handled
handleSetRequest_firstOnly(request, reg, ws, now) ==
    LET paramStart == IndexOf(request, <<"?">>) + 1
        paramEnd   == IndexOfFrom(request, <<" ">>, paramStart)
        params     == Substring(request, paramStart, paramEnd)
        end        == IndexOf(params, <<"&">>)
        param      == IF end = -1 THEN params ELSE Substring(params, 0, end)
        eqPos      == IndexOf(param, <<"=">>)
    IN  IF eqPos > 0
        THEN UpdateFirstMatch(reg, ws, Substring(param, 0, eqPos),
                              SubstringFrom(param, eqPos + 1), now)
        ELSE ws

\* WebGUI::handleSetRequest: the widgets after the call
handleSetRequest(request, reg, ws, now) ==
    LET paramStart == IndexOf(request, <<"?">>) + 1
        paramEnd   == IndexOfFrom(request, <<" ">>, paramStart)
        params     == Substring(request, paramStart, paramEnd)
    IN  SetParamLoop(params, 0, IndexOf(params, <<"&">>), reg, ws, now)

\* WebGUI::handleSet (ESP32): args is the server's list of <<name, value>>
RECURSIVE handleSet(_, _, _, _)
handleSet(args, reg, ws, now) ==
    IF args = <<>> THEN ws
    ELSE handleSet(Tail(args), reg,
                   UpdateFirstMatch(reg, ws, Head(args)[1], Head(args)[2], now), now)

\* WebGUI::generateGetResponse, and the same loop in WebGUI::handleGet
RECURSIVE GetResponseLoop(_, _, _)
GetResponseLoop(reg, ws, i) ==
    IF i > Len(reg) THEN <<>>
    ELSE (IF i > 1 THEN <<",">> ELSE <<>>)
         \o <<"\"">> \o ws[reg[i]].id \o <<"\"", ":", "\"">> \o getValue(ws[reg[i]]) \o <<"\"">>
         \o GetResponseLoop(reg, ws, i + 1)

generateGetResponse(reg, ws) == <<"{">> \o GetResponseLoop(reg, ws, 1) \o <<"}">>

\* the reset of every element of the label, whatever it shows
RECURSIVE SaveStatusReset_always(_, _, _, _)
SaveStatusReset_always(reg, ws, k, now) ==
    IF k > Len(reg) THEN ws
    ELSE LET element == ws[reg[k]]
             ws2 == IF IndexOf(element.label, Chars_SaveStatus) >= 0
                    THEN [ws EXCEPT ![reg[k]] = handleUpdate(element, Chars_Ready, now)]
                    ELSE ws
         IN  SaveStatusReset_always(reg, ws2, k + 1, now)

\* the save-status reset that opens streamHTML and handleRoot
RECURSIVE SaveStatusReset(_, _, _, _)
SaveStatusReset(reg, ws, k, now) ==
    IF k > Len(reg) THEN ws
    ELSE LET element == ws[reg[k]]
             currentValue == getValue(element)
             ws2 == IF /\ IndexOf(element.label, Chars_SaveStatus) >= 0
                       /\ \/ IndexOf(currentValue, Chars_saved) >= 0
                          \/ IndexOf(currentValue, Chars_Saving) >= 0
                    THEN [ws EXCEPT ![reg[k]] = handleUpdate(element, Chars_Ready, now)]
                    ELSE ws
         IN  SaveStatusReset(reg, ws2, k + 1, now)

\* the identifiers of the elements whose markup the page carries, in the order
\* the loops of streamHTML and generateHTML emit it
RenderedElements(reg, ws) == [k \in 1..Len(reg) |-> ws[reg[k]].id]

----------------------------------------------------------------------------
(* The page: texts are sequences of pieces, a placeholder being one piece *)

\* String::replace: every occurrence of find gives way to with; what was put
\* in is not searched again
RECURSIVE Replace(_, _, _)
Replace(s, find, with) ==
    IF s = <<>> THEN <<>>
    ELSE IF Len(s) = 1 THEN (IF s[1] = find THEN with ELSE s)
    ELSE LET half == Len(s) \div 2
         IN  Replace(SubSeq(s, 1, half), find, with)
             \o Replace(SubSeq(s, half + 1, Len(s)), find, with)

HTML_TEMPLATE ==
    <<"<!DOCTYPE html><html><head><title>", "%TITLE%", "</title><style>", "%CSS%",
      "</style></head><body><div class=\"container\"><h1>", "%HEADING%", "</h1>", "%ELEMENTS%",
      "</div><script>", "%JAVASCRIPT%", "</script></body></html>">>

BUTTON_TEMPLATE ==
    <<"<button ", "id=\"", "%ID%", "\"",
      " class=\"webgui-button\" onclick=\"buttonClick('", "%ID%", "')\">", "%LABEL%", "</button>">>

SLIDER_TEMPLATE ==
    <<"<div class=\"webgui-slider-container\"><label for=\"", "%ID%", "\">", "%LABEL%",
      " <span class=\"webgui-slider-value\" ", "id=\"", "%ID%", "_value\"", ">", "%VALUE%",
      "</span></label><input type=\"range\" ", "id=\"", "%ID%", "\"",
      " class=\"webgui-slider\" min=\"", "%MIN%", "\" max=\"", "%MAX%", "\" value=\"", "%VALUE%", "\"></div>">>

SENSOR_STATUS_TEMPLATE ==
    <<"<div class=\"webgui-sensor-container\"><label class=\"webgui-sensor-label\">",
      "%LABEL%", "</label><span class=\"webgui-sensor-value\" ",
      "id=\"", "%ID%", "_display\"", ">", "%VALUE%", "</span></div>">>

Attr_checkbox == "type=\"checkbox\""

TOGGLE_TEMPLATE ==
    <<"<div class=\"webgui-toggle-container\"><label class=\"webgui-toggle-label\">",
      "%LABEL%", "</label><label class=\"webgui-toggle-switch\"><input ",
      Attr_checkbox, " ", "id=\"", "%ID%", "\"",
      " class=\"webgui-toggle-input\" onchange=\"toggleChange('", "%ID%",
      "', this.checked)\"><span class=\"webgui-toggle-slider\"></span></label></div>">>

TEXTBOX_TEMPLATE ==
    <<"<div class=\"webgui-textbox-container\"><label for=\"", "%ID%", "\" class=\"webgui-textbox-label\">",
      "%LABEL%", "</label><input type=\"text\" ", "id=\"", "%ID%", "\"",
      " class=\"webgui-textbox\" value=\"", "%VALUE%", "\" placeholder=\"", "%PLACEHOLDER%",
      "\" onchange=\"textboxChange('", "%ID%", "', this.value)\"></div>">>

Button_generateHTML(b) ==
    Replace(Replace(BUTTON_TEMPLATE, "%ID%", b.id), "%LABEL%", b.label)

Slider_generateHTML(sl) ==
    LET html1 == Replace(SLIDER_TEMPLATE, "%ID%", sl.id)
        html2 == Replace(html1, "%LABEL%", sl.label)
        html3 == Replace(html2, "%MIN%", IntToStr(sl.minValue))
        html4 == Replace(html3, "%MAX%", IntToStr(sl.maxValue))
    IN  Replace(html4, "%VALUE%", IntToStr(sl.currentValue))

Toggle_generateHTML(t) ==
    LET html == Replace(Replace(TOGGLE_TEMPLATE, "%ID%", t.id), "%LABEL%", t.label)
    IN  IF t.state
        THEN Replace(html, Attr_checkbox, <<"type=\"checkbox\" checked">>)
        ELSE html

TextBox_generateHTML(t) ==
    LET html1 == Replace(TEXTBOX_TEMPLATE, "%ID%", t.id)
        html2 == Replace(html1, "%LABEL%", t.label)
        html3 == Replace(html2, "%VALUE%", t.textValue)
    IN  Replace(html3, "%PLACEHOLDER%", t.placeholderText)

SensorStatus_generateHTML(ss) ==
    LET html1 == Replace(SENSOR_STATUS_TEMPLATE, "%ID%", ss.id)
        html2 == Replace(html1, "%LABEL%", ss.label)
    IN  Replace(html2, "%VALUE%", ss.displayValue)

\* element->generateHTML(), by the class of w
elementHTML(w) ==
    CASE w.kind = "Button" -> Button_generateHTML(w)
      [] w.kind = "Toggle" -> Toggle_generateHTML(w)
      [] w.kind = "Slider" -> Slider_generateHTML(w)
      [] w.kind = "TextBox" -> TextBox_generateHTML(w)
      [] w.kind = "SensorStatus" -> SensorStatus_generateHTML(w)

\* element->generateJS(): a Slider's handler, nothing for the other classes
elementJS(w) ==
    IF w.kind = "Slider"
    THEN <<"document.getElementById('">> \o w.id
         \o <<"').oninput = function() { document.getElementById('">> \o w.id
         \o <<"_value').textContent = this.value; updateValue('">> \o w.id
         \o <<"', this.value); };">>
    ELSE <<>>

\* the loops over the registry that join what each element generates
RECURSIVE elementsHTML(_, _, _)
elementsHTML(reg, ws, k) ==
    IF k > Len(reg) THEN <<>> ELSE elementHTML(ws[reg[k]]) \o elementsHTML(reg, ws, k + 1)

RECURSIVE elementsJS(_, _, _)
elementsJS(reg, ws, k) ==
    IF k > Len(reg) THEN <<>> ELSE elementJS(ws[reg[k]]) \o elementsJS(reg, ws, k + 1)

WEBGUI_DEFAULT_CSS == <<"body { font-family: Arial, sans-serif; }">>

\* WebGUIStyleManager::getDefaultCSS: the style sheet the page built in memory
\* falls back on
getDefaultCSS == <<"body { font-family: Arial, sans-serif; margin: 20px; background: #f0f0f0; }">>

\* the colour themes of WebGUIStyles.h
WEBGUI_DEFAULT_THEME ==
    [primary |-> "#007bff", secondary |-> "#6c757d", success |-> "#28a745", danger |-> "#dc3545",
     warning |-> "#ffc107", background |-> "#f8f9fa", surface |-> "#ffffff", text |-> "#212529"]

WEBGUI_DARK_THEME ==
    [primary |-> "#0d6efd", secondary |-> "#6c757d", success |-> "#198754", danger |-> "#dc3545",
     warning |-> "#ffc107", background |-> "#212529", surface |-> "#343a40", text |-> "#ffffff"]

\* WebGUIStyleManager::replaceThemeVariables
replaceThemeVariables(css, theme) ==
    LET css1 == Replace(css, "%PRIMARY%", <<theme.primary>>)
        css2 == Replace(css1, "%SECONDARY%", <<theme.secondary>>)
        css3 == Replace(css2, "%SUCCESS%", <<theme.success>>)
        css4 == Replace(css3, "%DANGER%", <<theme.danger>>)
        css5 == Replace(css4, "%WARNING%", <<theme.warning>>)
        css6 == Replace(css5, "%BACKGROUND%", <<theme.background>>)
        css7 == Replace(css6, "%SURFACE%", <<theme.surface>>)
    IN  Replace(css7, "%TEXT%", <<theme.text>>)

\* WebGUIStyleManager::getThemedCSS
getThemedCSS(theme) == replaceThemeVariables(getDefaultCSS, theme)

generateCSS(css, custom) == IF custom THEN css ELSE getDefaultCSS

generateJS(reg, ws) ==
    <<"var buttonStates = {}; function updateValue(id, val) { } setInterval(updateSensorDisplays, 500);">>
    \o elementsJS(reg, ws, 1)

\* WebGUI::generateHTML: the page built in memory
generateHTML(title, heading, css, custom, reg, ws) ==
    LET html1 == Replace(HTML_TEMPLATE, "%TITLE%", title)
        html2 == Replace(html1, "%HEADING%", heading)
        html3 == Replace(html2, "%CSS%", generateCSS(css, custom))
        html4 == Replace(html3, "%ELEMENTS%", elementsHTML(reg, ws, 1))
    IN  Replace(html4, "%JAVASCRIPT%", generateJS(reg, ws))

\* WebGUI::streamHTML after the save-status loop: what is printed to the client
streamHTML(title, heading, reg, ws) ==
    <<"<!DOCTYPE html><html><head><title>">> \o title \o <<"</title><style>">>
    \o WEBGUI_DEFAULT_CSS \o <<"</style></head><body><h1>">> \o heading \o <<"</h1>">>
    \o elementsHTML(reg, ws, 1)
    \o <<"<script>", "function updateValue(id,val){ } setInterval(updateSensorDisplays,500);">>
    \o elementsJS(reg, ws, 1) \o <<"</script></body></html>">>

\* the byte loop of processClient over the bytes the client delivers before it
\* goes away: what httpRequest holds at the end, and whether the blank line
\* that triggers the dispatch was read
\* a loop that dispatches at the end of the request line
RECURSIVE ReadLoop_firstLine(_, _, _, _)
ReadLoop_firstLine(bytes, i, currentLine, request) ==
    IF i > Len(bytes) THEN [httpRequest |-> request, dispatch |-> FALSE]
    ELSE IF bytes[i] = "\n" THEN [httpRequest |-> Append(request, bytes[i]), dispatch |-> TRUE]
    ELSE ReadLoop_firstLine(bytes, i + 1, currentLine, Append(request, bytes[i]))

RECURSIVE ReadLoop(_, _, _, _)
ReadLoop(bytes, i, currentLine, request) ==
    IF i > Len(bytes) THEN [httpRequest |-> request, dispatch |-> FALSE]
    ELSE LET c == bytes[i]
         IN  IF c = "\n"
             THEN IF Len(currentLine) = 0
                  THEN [httpRequest |-> Append(request, c), dispatch |-> TRUE]
                  ELSE ReadLoop(bytes, i + 1, <<>>, Append(request, c))
             ELSE IF c # "\r"
                  THEN ReadLoop(bytes, i + 1, Append(currentLine, c), Append(request, c))
                  ELSE ReadLoop(bytes, i + 1, currentLine, Append(request, c))

\* a dispatcher without the set-value branch
Classify_noSet(request) ==
    IF IndexOf(request, Chars_GET_get) >= 0 THEN "get" ELSE "page"

\* the branch processClient takes once the blank line is read
Classify(request) ==
    IF IndexOf(request, Chars_GET_set) >= 0 THEN "set"
    ELSE IF IndexOf(request, Chars_GET_get) >= 0 THEN "get"
    ELSE "page"

NoResponse == [status |-> 0, type |-> "", body |-> <<>>]
Response(type, body) == [status |-> 200, type |-> type, body |-> body]

----------------------------------------------------------------------------
(* Persistent settings *)

\* A value is modelled by its object representation, a sequence of bytes: an
\* int and a float by their four bytes, least significant first, a bool by its
\* one byte, a C string (a key, a string value) by the codes of its characters.

Types == {"int", "float", "bool", "string"}

\* what the load functions return for a key that is not there: 0, 0.0, false, ""
Default(type) ==
    CASE type = "int" -> <<0, 0, 0, 0>>
      [] type = "float" -> <<0, 0, 0, 0>>
      [] type = "bool" -> <<0>>
      [] type = "string" -> <<>>

\* strncpy(dst, src, 15) followed by dst[15] = '\0'
StrNCpy15(str) == IF Len(str) > 15 THEN SubSeq(str, 1, 15) ELSE str

\* a function from keys to values with one more entry
Put(m, k, v) == [x \in DOMAIN m \cup {k} |-> IF x = k THEN v ELSE m[x]]

EmptyMap == [x \in {} |-> <<>>]

(* ESP32: Preferences *)

NoPreferences == [t \in Types |-> EmptyMap]

\* Preferences::putInt, putFloat, putBool, putString
PreferencesPut(store, type, key, value) == [store EXCEPT ![type] = Put(@, key, value)]

\* Preferences::getInt, getFloat, getBool, getString with their default
PreferencesGet(store, type, key) ==
    IF key \in DOMAIN store[type] THEN store[type][key] ELSE Default(type)

(* Nano 33 IoT: FlashStorage *)

\* entries of each array of FlashSettings
FlashSlots == 10

\* where the keys of a type start in FlashSettings::keys
KeyBase(type) ==
    CASE type = "int" -> 0
      [] type = "float" -> FlashSlots
      [] type = "bool" -> 2 * FlashSlots
      [] type = "string" -> 3 * FlashSlots

\* a FlashSettings that memset has zeroed; the arrays are indexed from 1 here
ZeroedFlash ==
    [valid |-> FALSE,
     intValues |-> [i \in 1..FlashSlots |-> Default("int")],
     floatValues |-> [i \in 1..FlashSlots |-> Default("float")],
     boolValues |-> [i \in 1..FlashSlots |-> Default("bool")],
     stringValues |-> [i \in 1..FlashSlots |-> Default("string")],
     keys |-> [i \in 1..(4 * FlashSlots) |-> <<>>]]

\* intValues, floatValues, boolValues or stringValues
FlashValues(f, type) ==
    CASE type = "int" -> f.intValues
      [] type = "float" -> f.floatValues
      [] type = "bool" -> f.boolValues
      [] type = "string" -> f.stringValues

\* the first slot taken again when no slot is free
FlashFindSlot_evict(f, type, key) ==
    LET same  == {i \in 0..(FlashSlots - 1) : f.keys[KeyBase(type) + i + 1] = key}
        empty == {i \in 0..(FlashSlots - 1) : f.keys[KeyBase(type) + i + 1] = <<>>}
    IN  IF same # {} THEN CHOOSE i \in same : \A j \in same : i <= j
        ELSE IF empty # {} THEN CHOOSE i \in empty : \A j \in empty : i <= j
        ELSE 0

\* the slot the loop of saveSetting ends with: the first whose key is the
\* key, else the first whose key is empty, else -1
FlashFindSlot(f, type, key) ==
    LET same  == {i \in 0..(FlashSlots - 1) : f.keys[KeyBase(type) + i + 1] = key}
        empty == {i \in 0..(FlashSlots - 1) : f.keys[KeyBase(type) + i + 1] = <<>>}
    IN  IF same # {} THEN CHOOSE i \in same : \A j \in same : i <= j
        ELSE IF empty # {} THEN CHOOSE i \in empty : \A j \in empty : i <= j
        ELSE -1

FlashStore(f, type, slot, key, value) ==
    LET g == [f EXCEPT !.keys[KeyBase(type) + slot + 1] = StrNCpy15(key)]
    IN  CASE type = "int" -> [g EXCEPT !.intValues[slot + 1] = value]
          [] type = "float" -> [g EXCEPT !.floatValues[slot + 1] = value]
          [] type = "bool" -> [g EXCEPT !.boolValues[slot + 1] = value]
          [] type = "string" -> [g EXCEPT !.stringValues[slot + 1] = StrNCpy15(value)]

\* the flash branch of saveSetting: what flash_settings holds afterwards
FlashSave(f, type, key, value) ==
    LET settings == IF ~f.valid THEN [ZeroedFlash EXCEPT !.valid = TRUE] ELSE f
        slot     == FlashFindSlot(settings, type, key)
    IN  IF slot # -1 THEN FlashStore(settings, type, slot, key, value) ELSE f

\* the flash branch of the load functions
FlashLoad(f, type, key) ==
    LET same == {i \in 0..(FlashSlots - 1) : f.keys[KeyBase(type) + i + 1] = key}
    IN  IF ~f.valid \/ same = {} THEN Default(type)
        ELSE FlashValues(f, type)[(CHOOSE i \in same : \A j \in same : i <= j) + 1]

(* UNO R4 WiFi: EEPROM *)

\* the byte of a cell in the erased state
Erased == 255

ErasedEEPROM == [a \in {} |-> Erased]

EepromRead(e, addr) == IF addr \in DOMAIN e THEN e[addr] ELSE Erased

EepromWrite(e, addr, byte) ==
    IF byte = Erased THEN [a \in DOMAIN e \ {addr} |-> e[a]]
    ELSE [a \in DOMAIN e \cup {addr} |-> IF a = addr THEN byte ELSE e[a]]

\* EEPROM.put of an object, byte after byte from addr on
RECURSIVE EepromPut(_, _, _)
EepromPut(e, addr, bytes) ==
    IF bytes = <<>> THEN e
    ELSE EepromPut(EepromWrite(e, addr, Head(bytes)), addr + 1, Tail(bytes))

\* EEPROM.get of an object of n bytes
EepromGet(e, addr, n) == [i \in 1..n |-> EepromRead(e, addr + i - 1)]

\* the uint16_t hash of saveSetting and the load functions, from its value h on
RECURSIVE Hash31(_, _)
Hash31(key, h) ==
    IF key = <<>> THEN h ELSE Hash31(Tail(key), (h * 31 + Head(key)) % 65536)

\* the uint16_t sum of saveSetting(const char*, bool), from its value addr on
RECURSIVE KeySum(_, _)
KeySum(key, addr) ==
    IF key = <<>> THEN addr ELSE KeySum(Tail(key), (addr + Head(key)) % 65536)

\* the address saveSetting writes a value of the type to
SaveAddr(type, key) ==
    CASE type = "int" -> 1616 + (Hash31(key, 0) % 100) * 16
      [] type = "float" -> 3216 + (Hash31(key, 0) % 100) * 16
      [] type = "bool" -> (KeySum(key, 16) % 1000) + 16
      [] type = "string" -> 16 + (Hash31(key, 0) % 100) * 16

\* the address the load function of the type reads from
LoadAddr(type, key) ==
    CASE type = "int" -> 1616 + (Hash31(key, 0) % 100) * 16
      [] type = "float" -> 3216 + (Hash31(key, 0) % 100) * 16
      [] type = "bool" -> 16 + (Hash31(key, 0) % 200) * 8
      [] type = "string" -> 16 + (Hash31(key, 0) % 100) * 16

\* String(buffer): the characters before the first '\0'
RECURSIVE CString(_)
CString(buffer) ==
    IF buffer = <<>> \/ Head(buffer) = 0 THEN <<>>
    ELSE <<Head(buffer)>> \o CString(Tail(buffer))

\* the EEPROM branch of saveSetting: a string goes as its length in one byte
\* and then its first 15 characters at most
EepromSave(e, type, key, value) ==
    IF type = "string"
    THEN LET len == Len(value) % 256
         IN  EepromPut(EepromWrite(e, SaveAddr(type, key), len), SaveAddr(type, key) + 1,
                       SubSeq(value, 1, Min(len, 15)))
    ELSE EepromPut(e, SaveAddr(type, key), value)

\* the EEPROM branch of the load functions
EepromLoad(e, type, key) ==
    IF type = "string"
    THEN LET len == EepromRead(e, LoadAddr(type, key))
         IN  IF len > 15 THEN <<>>
             ELSE CString(EepromGet(e, LoadAddr(type, key) + 1, len))
    ELSE EepromGet(e, LoadAddr(type, key), Len(Default(type)))

\* the loop of clearMemory over the first 1024 bytes
EepromClear(e) == [a \in {x \in DOMAIN e : x >= 1024} |-> e[a]]

(* the three strategies *)

\* what the load function of the type returns for the key from these contents
\* of the preference store, the flash block and the EEPROM
LoadFrom(store, f, e, type, key) ==
    CASE storage = "Preferences" -> PreferencesGet(store, type, key)
      [] storage = "FlashStorage" -> FlashLoad(f, type, key)
      [] storage = "EEPROM" -> EepromLoad(e, type, key)

\* what it returns as the storage stands
LoadSetting(type, key) == LoadFrom(nvs, flash, eeprom, type, key)

----------------------------------------------------------------------------
(* What the sketch and the clients may do: the inputs *)

Label_plain == <<"L", "E", "D">>

\* the largest and smallest numbers a sketch or a client hands to a Slider
SliderHi == 4
SliderLo == -1

\* the Slider ranges a sketch declares: min <= max
SliderRanges == {<<0, 2>>, <<1, 3>>}

Template(kind, label, min, max, def) ==
    [kind |-> kind, label |-> label, min |-> min, max |-> max, def |-> def]

\* the widgets of the sketches served over HTTP
PanelTemplates ==
    {Template(k, Label_plain, 0, 0, 0) : k \in {"Button", "Toggle", "TextBox"}}
    \cup {Template("SensorStatus", Chars_SaveStatus, 0, 0, 0)}

\* the single widget of the widget-level specification
UnitTemplates ==
    {Template(k, Label_plain, 0, 0, 0) : k \in {"Button", "Toggle", "TextBox", "SensorStatus"}}
    \cup {Template("Slider", Label_plain, r[1], r[2], d) : r \in SliderRanges, d \in SliderLo..SliderHi}

New(t, n) ==
    CASE t.kind = "Button" -> Button_new(t.label, n)
      [] t.kind = "Toggle" -> Toggle_new(t.label, n)
      [] t.kind = "Slider" -> Slider_new(t.label, n, t.min, t.max, t.def)
      [] t.kind = "TextBox" -> TextBox_new(t.label, n)
      [] t.kind = "SensorStatus" -> SensorStatus_new(t.label, n)

\* the values a client sends to a Button, Toggle, TextBox or SensorStatus
UpdateValues == {<<"1">>, <<"0">>, Chars_true, Chars_false, <<"o", "n">>}

\* the values a client sends to a Slider: every number of the range, as
\* String(v) writes it, a text that is no number and the empty text
SliderUpdateValues == {IntToStr(v) : v \in SliderLo..SliderHi} \cup {<<"a", "b">>, <<>>}

UpdateValuesFor(w) == IF w.kind = "Slider" THEN SliderUpdateValues ELSE UpdateValues

\* the texts a sketch displays in a SensorStatus or puts in a TextBox
SketchValues == {Chars_saved, <<"a", "\"", "b">>}

\* the texts a sketch hands to setIPAddress: an address and a text that is none
SketchAddresses == {<<"1", ".", "2", ".", "3", ".", "4">>, <<"1", ".", "2">>}

\* the values in the queries of the set-value requests
QueryValues == {<<"1">>, <<"0">>}

\* the identifiers the sketch's widgets can have
WidgetIds == {ElementID(n) : n \in 0..(MaxWidgets - 1)}

\* an identifier no widget ever has
UnknownId == ElementID(MaxWidgets)

\* the segments of a query string: name=value for the names of widgets and
\* for the unknown name, a segment without '=' and one whose name is empty
QuerySegments ==
    {n \o <<"=">> \o v : n \in WidgetIds, v \in QueryValues}
    \cup {UnknownId \o <<"=", "1">>, <<"j">>, <<"=", "1">>}

RECURSIVE JoinAmp(_)
JoinAmp(segs) ==
    IF segs = <<>> THEN <<>>
    ELSE IF Len(segs) = 1 THEN segs[1]
    ELSE segs[1] \o <<"&">> \o JoinAmp(Tail(segs))

SegmentLists == UNION {[1..n -> QuerySegments] : n \in 0..MaxPairs}

Chars_GET == <<"G", "E", "T", " ">>
Chars_HTTP == <<" ", "H", "T", "T", "P", "/", "1", ".", "1", "\r", "\n">>
CRLF == <<"\r", "\n">>

\* a complete request: the request line, the header lines, the blank line
RequestBytes(target, headers) == Chars_GET \o target \o Chars_HTTP \o headers \o CRLF

Header_host == <<"H", "o", "s", "t", ":", " ", "a">> \o CRLF
Header_note == <<"X", ":", " ">> \o Chars_GET_get \o CRLF

Path_set == <<"/", "s", "e", "t">>
Path_get == <<"/", "g", "e", "t">>

\* the targets of the requests that carry no query
PlainTargets ==
    {<<"/">>, Path_get, Path_get \o <<"x">>, <<"/", "f", "o", "o">>, Path_set,
     Path_set \o <<"t", "i", "n", "g", "s">>}

SetRequests == {RequestBytes(Path_set \o <<"?">> \o JoinAmp(segs), <<>>) : segs \in SegmentLists}

PlainRequests ==
    {RequestBytes(t, <<>>) : t \in PlainTargets}
    \cup {RequestBytes(t, h) : t \in {<<"/">>, Path_get}, h \in {Header_host, Header_note}}

\* a client that goes away after the request line
CutRequests ==
    {Chars_GET \o Path_set \o <<"?">> \o n \o <<"=", "1">> \o Chars_HTTP : n \in WidgetIds}

\* what a client sends to a streaming board
StreamRequests ==
    {[route |-> "", args |-> <<>>, bytes |-> b] :
        b \in SetRequests \cup PlainRequests \cup CutRequests}

\* ESP32: the arguments WebServer hands to handleSet for the same queries; a
\* segment without '=' arrives as a name with an empty value
ServerArgs ==
    {<<n, v>> : n \in WidgetIds, v \in QueryValues}
    \cup {<<UnknownId, <<"1">> >>, << <<"j">>, <<>> >>}

ArgLists == UNION {[1..n -> ServerArgs] : n \in 0..MaxPairs}

\* ESP32: a request as WebServer presents it, by the route registered in setupRoutes
RoutedRequests ==
    {[route |-> "/set", args |-> a, bytes |-> <<>>] : a \in ArgLists}
    \cup {[route |-> r, args |-> <<>>, bytes |-> <<>>] : r \in {"/", "/get"}}

NoRequest == [route |-> "", args |-> <<>>, bytes |-> <<>>]

\* the texts a sketch hands to setTitle and setCustomCSS and gives its widgets
\* as labels: plain ones and ones that hold the name of a placeholder
PageTexts == {<<"P">>, <<"%ELEMENTS%">>, <<"a", "%JAVASCRIPT%">>}

PageLabels == {Label_plain, <<"%JAVASCRIPT%">>}

\* the themes a sketch hands to setTheme
PageThemes == {WEBGUI_DEFAULT_THEME, WEBGUI_DARK_THEME}

\* the widgets of the sketches whose page is rendered
PageTemplates ==
    {Template(k, l, 0, 0, 0) : k \in {"Button", "Toggle", "SensorStatus"}, l \in PageLabels}
    \cup {Template("Slider", Label_plain, 0, 2, 1)}

\* a client asks for the page
PageRequest(build) ==
    IF build = "STREAM"
    THEN [route |-> "", args |-> <<>>, bytes |-> RequestBytes(<<"/">>, <<>>)]
    ELSE [route |-> "/", args |-> <<>>, bytes |-> <<>>]

\* the title and the heading the constructor sets
Text_ArduinoWebGUI == <<"Arduino WebGUI">>
Text_ControlPanel == <<"Control Panel">>

\* the keys of the settings: "ak" and "ka", which share their slots, and "ao",
\* whose bool is saved at the first cell of the string slot of the two
SettingKeys == {<<97, 107>>, <<107, 97>>, <<97, 111>>}

\* "abcdefghijklmnop", one character more than a slot takes
Str16 == [i \in 1..16 |-> 96 + i]

\* the values the sketch saves: 7 and 42; 1.5 and 2.0; false and true; "hi",
\* a string of 15 characters and one of 16
SettingValues(type) ==
    CASE type = "int" -> {<<7, 0, 0, 0>>, <<42, 0, 0, 0>>}
      [] type = "float" -> {<<0, 0, 192, 63>>, <<0, 0, 0, 64>>}
      [] type = "bool" -> {<<0>>, <<1>>}
      [] type = "string" -> {<<104, 105>>, SubSeq(Str16, 1, 15), Str16}

\* the entries of each type a former run of the sketch left in the flash block
FlashFill == 9

\* the keys of those entries: "f1", "f2", ...
FillerKey(n) == <<102, 48 + n>>

\* the values of those entries: 7, 1.5, true, "hi"
FillerValue(type) ==
    CASE type = "int" -> <<7, 0, 0, 0>>
      [] type = "float" -> <<0, 0, 192, 63>>
      [] type = "bool" -> <<1>>
      [] type = "string" -> <<104, 105>>

\* the values of a type in the flash block after the former run
FilledValues(type) ==
    [i \in 1..FlashSlots |-> IF i <= FlashFill THEN FillerValue(type) ELSE Default(type)]

\* the flash block after the former run saved FlashFill settings of each type
UsedFlash ==
    [valid |-> TRUE,
     intValues |-> FilledValues("int"),
     floatValues |-> FilledValues("float"),
     boolValues |-> FilledValues("bool"),
     stringValues |-> FilledValues("string"),
     keys |-> [i \in 1..(4 * FlashSlots) |->
                 IF ((i - 1) % FlashSlots) + 1 <= FlashFill
                 THEN FillerKey(((i - 1) % FlashSlots) + 1) ELSE <<>>]]

----------------------------------------------------------------------------
(* The calls *)

Event(op, w, arg, ret) == [op |-> op, w |-> w, arg |-> arg, ret |-> ret]

\* trace after one more call of the sketch: its last MaxTrace calls where the
\* history is kept, its last call alone where it is not
Record(e, history) ==
    IF history
    THEN LET t == Append(trace, e)
         IN  IF Len(t) > MaxTrace THEN SubSeq(t, Len(t) - MaxTrace + 1, Len(t)) ELSE t
    ELSE <<e>>

\* the strategies of the builds: the ESP32 build keeps its settings in
\* Preferences, the streaming builds in FlashStorage (Nano 33 IoT) or EEPROM
StorageOf(build) == IF build = "ESP32" THEN {"Preferences"} ELSE {"FlashStorage", "EEPROM"}

\* the WiFi object and WebGUI::apMode after the constructor, no call of the
\* sketch under way. pc is where the connect call stands ("idle": the sketch
\* runs), call and args which call it is, phase its join (autoConfigureNetworkRange
\* joins twice), attempts its local counter; of the WiFi calls made in the
\* call, reads counts WiFi.status(), begun counts WiFi.begin and config holds
\* the arguments of WiFi.config; status is what WiFi.status() last returned,
\* aps counts the access points started
NoWiFi ==
    [pc |-> "idle", call |-> "none", args |-> <<>>, phase |-> 0, attempts |-> 0, reads |-> 0,
     begun |-> 0, config |-> <<>>, status |-> "WL_IDLE_STATUS", apMode |-> FALSE, aps |-> 0]

\* no call of processClient under way: pc is "sketch" while the sketch's own
\* code runs and "reading" inside the loop of processClient; connected is the
\* state of the client's socket, wire the bytes the client has yet to send,
\* buffer the bytes received and not yet read, currentLine and httpRequest the
\* two strings of processClient
NoReader ==
    [pc |-> "sketch", connected |-> FALSE, wire |-> <<>>, buffer |-> <<>>,
     currentLine |-> <<>>, httpRequest |-> <<>>]

\* the state after the constructors, but for what the flash block holds
InitObjects ==
    /\ wifi = NoWiFi
    /\ reader = NoReader
    /\ platform \in {"ESP32", "STREAM"}
    /\ widgets = <<>>
    /\ nextID = 0
    /\ elements = <<>>
    /\ millis = 0
    /\ client = "none"
    /\ inbound = NoRequest
    /\ response = NoResponse
    /\ trace = <<>>
    /\ backlog = <<>>
    /\ pageTitle = Text_ArduinoWebGUI
    /\ pageHeading = Text_ControlPanel
    /\ customCSS = <<>>
    /\ useCustomStyles = FALSE
    /\ storage \in StorageOf(platform)
    /\ settingsInitialized = FALSE
    /\ preferences = "nullptr"
    /\ nvs = NoPreferences
    /\ eeprom = ErasedEEPROM

Init == InitObjects /\ flash = ZeroedFlash

\* time passes
Tick ==
    /\ millis < MaxMillis
    /\ millis' = millis + 1
    /\ UNCHANGED <<persistent, page, backlog, board, widgets, nextID, elements, connection, trace>>

\* the sketch constructs a widget
Construct(t) ==
    /\ client = "none"
    /\ nextID < MaxWidgets
    /\ widgets' = Append(widgets, New(t, nextID))
    /\ nextID' = nextID + 1
    /\ UNCHANGED <<persistent, page, backlog, board, elements, millis, connection, trace>>

\* WebGUI::addElement, called by the sketch for a widget it has not registered
addElement(i) ==
    /\ client = "none"
    /\ i \in 1..Len(widgets)
    /\ \A k \in 1..Len(elements) : elements[k] # i
    /\ elements' = Append(elements, i)
    /\ UNCHANGED <<persistent, page, backlog, board, widgets, nextID, millis, connection, trace>>

\* WebGUI::setTitle
setTitle(title) ==
    /\ client = "none"
    /\ pageTitle' = title
    /\ pageHeading' = title
    /\ UNCHANGED <<persistent, customCSS, useCustomStyles, backlog, board, widgets, nextID,
                   elements, millis, connection, trace>>

\* WebGUI::setCustomCSS
setCustomCSS(css) ==
    /\ client = "none"
    /\ customCSS' = css
    /\ useCustomStyles' = TRUE
    /\ UNCHANGED <<persistent, pageTitle, pageHeading, backlog, board, widgets, nextID,
                   elements, millis, connection, trace>>

\* WebGUI::setTheme
setTheme(theme) ==
    /\ client = "none"
    /\ customCSS' = getThemedCSS(theme)
    /\ useCustomStyles' = TRUE
    /\ UNCHANGED <<persistent, pageTitle, pageHeading, backlog, board, widgets, nextID,
                   elements, millis, connection, trace>>

\* WebGUI::useDefaultStyles
useDefaultStyles ==
    /\ client = "none"
    /\ useCustomStyles' = FALSE
    /\ customCSS' = <<>>
    /\ UNCHANGED <<persistent, pageTitle, pageHeading, backlog, board, widgets, nextID,
                   elements, millis, connection, trace>>

\* a call of the sketch that replaces widget i by w2 and returns ret;
\* logged says whether trace takes it
Call(op, i, arg, w2, ret, logged, history) ==
    /\ client = "none"
    /\ widgets' = [widgets EXCEPT ![i] = w2]
    /\ trace' = IF logged THEN Record(Event(op, i, arg, ret), history) ELSE trace
    /\ UNCHANGED <<persistent, page, backlog, board, nextID, elements, millis, connection>>

\* the sketch calls handleUpdate of a widget directly
DoHandleUpdate(i, value, history) ==
    /\ i \in 1..Len(widgets)
    /\ Call("handleUpdate", i, value, handleUpdate(widgets[i], value, millis), FALSE,
            TRUE, history)

\* the sketch's consuming read: wasPressed, wasToggled or wasChanged
DoConsumingRead(i, logged) ==
    /\ i \in 1..Len(widgets)
    /\ HasFlag(widgets[i])
    /\ LET r == ConsumingRead(widgets[i])
       IN  Call("read", i, <<>>, r.self, r.ret, logged, TRUE)

\* Button::setState and Toggle::setState
DoSetState(i, b) ==
    /\ i \in 1..Len(widgets)
    /\ widgets[i].kind \in {"Button", "Toggle"}
    /\ Call("setState", i, <<b>>,
            IF widgets[i].kind = "Button" THEN Button_setState(widgets[i], b)
            ELSE Toggle_setState(widgets[i], b), FALSE, TRUE, TRUE)

\* TextBox::setValue
DoTextBoxSetValue(i, value) ==
    /\ i \in 1..Len(widgets)
    /\ widgets[i].kind = "TextBox"
    /\ Call("setValue", i, value, TextBox_setValue(widgets[i], value), FALSE, TRUE, TRUE)

\* TextBox::setIPAddress
DoSetIPAddress(i, ip) ==
    /\ i \in 1..Len(widgets)
    /\ widgets[i].kind = "TextBox"
    /\ Call("setIPAddress", i, ip, TextBox_setIPAddress(widgets[i], ip), FALSE, TRUE, TRUE)

\* SensorStatus::setValue(String)
DoSetValue(i, value, logged) ==
    /\ i \in 1..Len(widgets)
    /\ widgets[i].kind = "SensorStatus"
    /\ Call("setValue", i, value, SensorStatus_setValue(widgets[i], value), FALSE, logged, TRUE)

\* SensorStatus::setValue(int)
DoSetValueInt(i, v) ==
    /\ i \in 1..Len(widgets)
    /\ widgets[i].kind = "SensorStatus"
    /\ Call("setValue(int)", i, <<v>>, SensorStatus_setValueInt(widgets[i], v), FALSE,
            TRUE, TRUE)

\* SensorStatus::setValue(bool)
DoSetValueBool(i, b) ==
    /\ i \in 1..Len(widgets)
    /\ widgets[i].kind = "SensorStatus"
    /\ Call("setValue(bool)", i, <<b>>, SensorStatus_setValueBool(widgets[i], b), FALSE,
            TRUE, TRUE)

\* Slider::setValue
DoSliderSetValue(i, v) ==
    /\ i \in 1..Len(widgets)
    /\ widgets[i].kind = "Slider"
    /\ Call("Slider::setValue", i, <<v>>, Slider_setValue(widgets[i], v), FALSE, TRUE, FALSE)

\* Slider::setRange
DoSliderSetRange(i, r) ==
    /\ i \in 1..Len(widgets)
    /\ widgets[i].kind = "Slider"
    /\ Call("Slider::setRange", i, r, Slider_setRange(widgets[i], r[1], r[2]), FALSE,
            TRUE, FALSE)

\* a client connects and its inbound arrives; the server holds it until the
\* sketch's next call of update()
Connect(req) ==
    /\ client = "none"
    /\ client' = "waiting"
    /\ inbound' = req
    /\ response' = NoResponse
    /\ UNCHANGED <<persistent, page, backlog, board, widgets, nextID, elements, millis, trace>>

\* an update() that serves the waiting client and drops those pending behind it
processClient_drain ==
    /\ platform = "STREAM"
    /\ client = "waiting"
    /\ response' = Response("text/plain", Chars_OK)
    /\ client' = "closed"
    /\ backlog' = <<>>
    /\ UNCHANGED <<persistent, page, board, widgets, nextID, elements, millis, inbound, trace>>

\* WebGUI::update on the streaming boards: processClient with the waiting client
processClient ==
    /\ platform = "STREAM"
    /\ client = "waiting"
    /\ LET r == ReadLoop(inbound.bytes, 1, <<>>, <<>>)
           branch == Classify(r.httpRequest)
       IN  IF ~r.dispatch
           THEN /\ response' = NoResponse
                /\ UNCHANGED widgets
           ELSE IF branch = "set"
           THEN /\ widgets' = handleSetRequest(r.httpRequest, elements, widgets, millis)
                /\ response' = Response("text/plain", Chars_OK)
           ELSE IF branch = "get"
           THEN /\ response' = Response("application/json",
                                        generateGetResponse(elements, widgets))
                /\ UNCHANGED widgets
           ELSE /\ widgets' = SaveStatusReset(elements, widgets, 1, millis)
                /\ response' = Response("text/html",
                                        streamHTML(pageTitle, pageHeading, elements, widgets'))
    /\ client' = "closed"
    /\ UNCHANGED <<persistent, page, backlog, board, nextID, elements, millis, inbound, trace>>

\* ESP32: the handler of "/"
handleRoot ==
    /\ platform = "ESP32"
    /\ client = "waiting"
    /\ inbound.route = "/"
    /\ widgets' = SaveStatusReset(elements, widgets, 1, millis)
    /\ response' = Response("text/html",
                            generateHTML(pageTitle, pageHeading, customCSS, useCustomStyles,
                                         elements, widgets'))
    /\ client' = "closed"
    /\ UNCHANGED <<persistent, page, backlog, board, nextID, elements, millis, inbound, trace>>

\* ESP32: the handler of "/set"
DoHandleSet ==
    /\ platform = "ESP32"
    /\ client = "waiting"
    /\ inbound.route = "/set"
    /\ widgets' = handleSet(inbound.args, elements, widgets, millis)
    /\ response' = Response("text/plain", Chars_OK)
    /\ client' = "closed"
    /\ UNCHANGED <<persistent, page, backlog, board, nextID, elements, millis, inbound, trace>>

\* a handler of "/get" that reads the flags as the sketch does
handleGet_consuming ==
    /\ platform = "ESP32"
    /\ client = "waiting"
    /\ inbound.route = "/get"
    /\ response' = Response("application/json", generateGetResponse(elements, widgets))
    /\ widgets' = [i \in 1..Len(widgets) |->
                      IF HasFlag(widgets[i]) THEN ConsumingRead(widgets[i]).self
                      ELSE widgets[i]]
    /\ client' = "closed"
    /\ UNCHANGED <<persistent, page, backlog, board, nextID, elements, millis, inbound, trace>>

\* ESP32: the handler of "/get"
handleGet ==
    /\ platform = "ESP32"
    /\ client = "waiting"
    /\ inbound.route = "/get"
    /\ response' = Response("application/json", generateGetResponse(elements, widgets))
    /\ client' = "closed"
    /\ UNCHANGED <<persistent, page, backlog, board, widgets, nextID, elements, millis, inbound, trace>>

\* the client has what was written to it; the exchange is over
Finish ==
    /\ client = "closed"
    /\ client' = "none"
    /\ inbound' = NoRequest
    /\ response' = NoResponse
    /\ UNCHANGED <<persistent, page, backlog, board, widgets, nextID, elements, millis, trace>>

\* the sketch of a control panel and its clients
Next ==
    \/ \E t \in PanelTemplates : Construct(t)
    \/ \E i \in 1..Len(widgets) : addElement(i)
    \/ \E req \in StreamRequests : platform = "STREAM" /\ Connect(req)
    \/ \E req \in RoutedRequests : platform = "ESP32" /\ Connect(req)
    \/ processClient
    \/ handleRoot
    \/ DoHandleSet
    \/ handleGet
    \/ Finish
    \/ \E i \in 1..Len(widgets) : DoConsumingRead(i, FALSE)
    \/ \E i \in 1..Len(widgets), v \in SketchValues : DoSetValue(i, v, FALSE)

Spec == Init /\ [][Next]_vars

\* one widget and the sketch's calls on it
InitWidget == Init /\ platform = "STREAM"

NextWidget ==
    \/ Tick
    \/ \E t \in UnitTemplates : widgets = <<>> /\ Construct(t)
    \/ \E i \in 1..Len(widgets) : \E v \in UpdateValuesFor(widgets[i]) :
          DoHandleUpdate(i, v, HasFlag(widgets[i]))
    \/ \E i \in 1..Len(widgets) : DoConsumingRead(i, TRUE)
    \/ \E i \in 1..Len(widgets), b \in BOOLEAN : DoSetState(i, b)
    \/ \E i \in 1..Len(widgets), v \in SketchValues : DoTextBoxSetValue(i, v)
    \/ \E i \in 1..Len(widgets), ip \in SketchAddresses : DoSetIPAddress(i, ip)
    \/ \E i \in 1..Len(widgets), v \in SketchValues : DoSetValue(i, v, TRUE)
    \/ \E i \in 1..Len(widgets), v \in SliderLo..SliderHi : DoSetValueInt(i, v)
    \/ \E i \in 1..Len(widgets), b \in BOOLEAN : DoSetValueBool(i, b)
    \/ \E i \in 1..Len(widgets), v \in SliderLo..SliderHi : DoSliderSetValue(i, v)
    \/ \E i \in 1..Len(widgets), r \in SliderRanges : DoSliderSetRange(i, r)

SpecWidget == InitWidget /\ [][NextWidget]_vars

----------------------------------------------------------------------------
(* The sketch's loop(): update(), then the consuming reads *)

\* the widgets with a flag the quick-start sketch polls
LoopTemplates == {Template(k, Label_plain, 0, 0, 0) : k \in {"Button", "Toggle"}}

\* the queries of the loop's clients: pairs for the widgets only
LoopSegments == {n \o <<"=">> \o v : n \in WidgetIds, v \in QueryValues}

LoopSegmentLists == UNION {[1..n -> LoopSegments] : n \in 0..MaxPairs}

LoopArgLists ==
    UNION {[1..n -> {<<m, v>> : m \in WidgetIds, v \in QueryValues}] : n \in 0..MaxPairs}

\* what the clients of the loop send, as the build receives it
LoopRequests(build) ==
    IF build = "STREAM"
    THEN {[route |-> "", args |-> <<>>, bytes |-> b] :
             b \in {RequestBytes(Path_set \o <<"?">> \o JoinAmp(segs), <<>>) :
                        segs \in LoopSegmentLists}
                   \cup {RequestBytes(<<"/">>, <<>>), RequestBytes(Path_get, <<>>)}}
    ELSE {[route |-> "/set", args |-> a, bytes |-> <<>>] : a \in LoopArgLists}
         \cup {[route |-> r, args |-> <<>>, bytes |-> <<>>] : r \in {"/", "/get"}}

\* the requests of the clients that connect while another is waiting
QueuedRequests(build) == {r \in LoopRequests(build) : Len(r.args) <= 1 /\ Len(r.bytes) <= 32}

\* another client connects while one waits: the server keeps it pending
Queue(req) ==
    /\ client = "waiting"
    /\ Len(backlog) < MaxBacklog
    /\ backlog' = Append(backlog, req)
    /\ UNCHANGED <<persistent, page, board, widgets, nextID, elements, millis, connection,
                   trace>>

\* the step is the dispatch of the waiting client's request
Dispatch == client = "waiting" /\ client' = "closed"

\* the widgets after the sketch's consuming read of each
ReadAll(ws) ==
    [i \in 1..Len(ws) |-> IF HasFlag(ws[i]) THEN ConsumingRead(ws[i]).self ELSE ws[i]]

\* what the consuming reads returned
ReadResults(ws) ==
    [i \in 1..Len(ws) |-> IF HasFlag(ws[i]) THEN ConsumingRead(ws[i]).ret ELSE FALSE]

\* loop() after update() has returned: the sketch reads the flag of each of
\* its widgets; the client served, if any, is gone, and the next pending
\* connection is the one server->available() returns to the next update()
Poll ==
    /\ client \in {"none", "closed"}
    /\ widgets' = ReadAll(widgets)
    /\ trace' = <<Event("poll", 0, <<>>, ReadResults(widgets))>>
    /\ response' = NoResponse
    /\ IF backlog # <<>>
       THEN /\ client' = "waiting"
            /\ inbound' = Head(backlog)
            /\ backlog' = Tail(backlog)
       ELSE /\ client' = "none"
            /\ inbound' = NoRequest
            /\ backlog' = backlog
    /\ UNCHANGED <<persistent, page, board, nextID, elements, millis>>

InitLoop == Init /\ storage # "EEPROM"

NextLoop ==
    \/ \E t \in LoopTemplates : Construct(t)
    \/ \E i \in 1..Len(widgets) : addElement(i)
    \/ \E req \in LoopRequests(platform) : Connect(req)
    \/ \E req \in QueuedRequests(platform) : Queue(req)
    \/ processClient
    \/ handleRoot
    \/ DoHandleSet
    \/ handleGet
    \/ Poll

\* loop() runs for ever: update() is called again while a client waits, and
\* so are the reads after it
SpecLoop == InitLoop /\ [][NextLoop]_vars /\ WF_client(Dispatch) /\ WF_vars(Poll)

----------------------------------------------------------------------------
(* The sketch that sets up a page, and the clients that ask for it *)

InitPage == Init /\ storage # "EEPROM"

NextPage ==
    \/ \E t \in PageTemplates : Construct(t)
    \/ \E i \in 1..Len(widgets) : addElement(i)
    \/ \E t \in PageTexts : setTitle(t)
    \/ \E css \in PageTexts : setCustomCSS(css)
    \/ \E theme \in PageThemes : setTheme(theme)
    \/ useDefaultStyles
    \/ \E i \in 1..Len(widgets) : DoSetState(i, TRUE)
    \/ Connect(PageRequest(platform))
    \/ processClient
    \/ handleRoot
    \/ Finish

SpecPage == InitPage /\ [][NextPage]_vars

----------------------------------------------------------------------------
(* The calls of the settings functions *)

\* calls of the settings functions in one run of the model
MaxCalls == 3

SettingsEvent(op, type, key, value) == [op |-> op, type |-> type, key |-> key, value |-> value]

\* WebGUI::initSettings, as the sketch calls it and as saveSetting and the
\* load functions call it first
Initialized ==
    /\ settingsInitialized' = TRUE
    /\ preferences' = IF ~settingsInitialized /\ storage = "Preferences" THEN "open"
                      ELSE preferences

\* what a call of a settings function leaves alone
SettingsCall(e) ==
    /\ Len(trace) < MaxCalls
    /\ trace' = Append(trace, e)
    /\ UNCHANGED <<board, widgets, nextID, elements, millis, connection, backlog, page, storage>>

initSettings ==
    /\ Initialized
    /\ SettingsCall(SettingsEvent("initSettings", "", <<>>, <<>>))
    /\ UNCHANGED <<nvs, flash, eeprom>>

\* WebGUI::saveSetting(key, value) for a value of the type
saveSetting(type, key, value) ==
    /\ Initialized
    /\ nvs' = IF storage = "Preferences" THEN PreferencesPut(nvs, type, key, value) ELSE nvs
    /\ flash' = IF storage = "FlashStorage" THEN FlashSave(flash, type, key, value) ELSE flash
    /\ eeprom' = IF storage = "EEPROM" THEN EepromSave(eeprom, type, key, value) ELSE eeprom
    /\ SettingsCall(SettingsEvent("save", type, key, value))

\* WebGUI::loadIntSetting, loadFloatSetting, loadBoolSetting, loadStringSetting
loadSetting(type, key) ==
    /\ Initialized
    /\ SettingsCall(SettingsEvent("load", type, key, LoadSetting(type, key)))
    /\ UNCHANGED <<nvs, flash, eeprom>>

\* a clearMemory that leaves the settings store as it is
clearMemory_keep ==
    /\ SettingsCall(SettingsEvent("clearMemory", "", <<>>, <<>>))
    /\ UNCHANGED <<settingsInitialized, preferences, nvs, flash, eeprom>>

\* WebGUI::clearMemory
clearMemory ==
    /\ nvs' = IF storage = "Preferences" /\ preferences = "open" THEN NoPreferences ELSE nvs
    /\ flash' = IF storage = "FlashStorage" THEN ZeroedFlash ELSE flash
    /\ eeprom' = IF storage = "EEPROM" THEN EepromClear(eeprom) ELSE eeprom
    /\ SettingsCall(SettingsEvent("clearMemory", "", <<>>, <<>>))
    /\ UNCHANGED <<settingsInitialized, preferences>>

\* the board restarts: the WebGUI object is constructed anew, the storage stays
Restart ==
    /\ settingsInitialized' = FALSE
    /\ preferences' = "nullptr"
    /\ SettingsCall(SettingsEvent("restart", "", <<>>, <<>>))
    /\ UNCHANGED <<nvs, flash, eeprom>>

InitSettings ==
    /\ InitObjects
    /\ flash \in IF storage = "FlashStorage" THEN {ZeroedFlash, UsedFlash} ELSE {ZeroedFlash}

NextSettings ==
    \/ initSettings
    \/ \E type \in Types, key \in SettingKeys : \E value \in SettingValues(type) :
          saveSetting(type, key, value)
    \/ \E type \in Types, key \in SettingKeys : loadSetting(type, key)
    \/ clearMemory
    \/ Restart

SpecSettings == InitSettings /\ [][NextSettings]_vars

----------------------------------------------------------------------------
(* The sketch that validates the network texts of its TextBoxes *)

\* a text as the String of its characters
RECURSIVE JoinDots(_)
JoinDots(groups) ==
    IF Len(groups) = 0 THEN <<>>
    ELSE IF Len(groups) = 1 THEN groups[1]
    ELSE groups[1] \o <<".">> \o JoinDots(Tail(groups))

\* the groups the texts handed to isValidIPAddress are made of
TextGroups ==
    {<<>>, <<"0">>, <<"1">>, <<"0", "1">>, <<"0", "0">>, <<"2", "5", "5">>, <<"2", "5", "6">>,
     <<"1", "9", "2">>, <<"0", "2", "5", "5">>, <<"1", "a">>, <<"-", "1">>, <<"+", "1">>,
     <<" ", "1">>}

\* the groups of an address
AddressGroups == 4

\* the longest text in groups
MaxGroups == 5

\* the texts handed to isValidIPAddress: up to four groups of any kind, and
\* more groups of one digit
AddressTexts ==
    UNION {{JoinDots(g) : g \in [1..n -> TextGroups]} : n \in 1..AddressGroups}
    \cup UNION {{JoinDots(g) : g \in [1..n -> {<<"0">>, <<"1">>}]} :
                    n \in (AddressGroups + 1)..MaxGroups}

\* an address or a mask as the sketch's text
Dotted(b0, b1, b2, b3) == JoinDots(<<NatToStr(b0), NatToStr(b1), NatToStr(b2), NatToStr(b3)>>)

\* the texts handed to validateNetworkConfig as ip and gateway
ConfigAddresses ==
    {Dotted(192, 168, 1, 50), Dotted(192, 168, 1, 1), Dotted(192, 168, 2, 1), Dotted(10, 0, 0, 1),
     Dotted(192, 168, 1, 256), JoinDots(<<<<"1", "9", "2">>, <<"1", "6", "8">>, <<"0", "1">>, <<"1">>>>),
     <<>>}

\* the texts handed to validateNetworkConfig as subnet
ConfigMasks ==
    {Dotted(255, 255, 255, 0), Dotted(255, 255, 0, 0), Dotted(255, 255, 255, 128), Dotted(0, 0, 0, 0),
     Dotted(255, 255, 255, 255), Dotted(255, 0, 255, 0), Dotted(0, 255, 255, 255),
     Dotted(255, 255, 255, 1), Dotted(255, 255, 256, 0), <<>>}

\* the sketch's one call of a static function of TextBox; trace is the call
\* and what it returned
StaticCall(op, arg, ret) ==
    /\ client = "none"
    /\ trace = <<>>
    /\ trace' = <<Event(op, 0, arg, ret)>>
    /\ UNCHANGED <<persistent, page, backlog, board, widgets, nextID, elements, millis, connection>>

\* the sketch calls TextBox::isValidIPAddress(ip)
DoIsValidIPAddress(ip) == StaticCall("isValidIPAddress", ip, TextBox_isValidIPAddress(ip))

\* the sketch calls TextBox::isValidSubnetMask(subnet)
DoIsValidSubnetMask(subnet) ==
    StaticCall("isValidSubnetMask", subnet, TextBox_isValidSubnetMask(subnet))

\* the sketch calls TextBox::validateNetworkConfig(ip, subnet, gateway)
DoValidateNetworkConfig(ip, subnet, gateway) ==
    StaticCall("validateNetworkConfig", <<ip, subnet, gateway>>,
               TextBox_validateNetworkConfig(ip, subnet, gateway))

InitValidate == Init /\ platform = "STREAM" /\ storage = "EEPROM"

NextValidate ==
    \/ trace = <<>> /\ \E ip \in AddressTexts : DoIsValidIPAddress(ip)
    \/ trace = <<>> /\ \E subnet \in ConfigMasks : DoIsValidSubnetMask(subnet)
    \/ trace = <<>> /\ \E ip \in ConfigAddresses, subnet \in ConfigMasks,
                           gateway \in ConfigAddresses :
                           DoValidateNetworkConfig(ip, subnet, gateway)

SpecValidate == InitValidate /\ [][NextValidate]_vars

----------------------------------------------------------------------------
(* The sketch that joins a network *)

\* the board of the build, told by its storage strategy
Board ==
    CASE storage = "Preferences" -> "ESP32"
      [] storage = "FlashStorage" -> "ARDUINO_SAMD_NANO_33_IOT"
      [] storage = "EEPROM" -> "ARDUINO_UNOWIFIR4"

\* const int maxAttempts
maxAttempts == 30

\* what WiFi.status() returns
Statuses == {"WL_CONNECTED", "WL_DISCONNECTED"}

\* the loop goes on for longer than maxAttempts
KeepsWaiting_longer(status, attempts) == status # "WL_CONNECTED" /\ attempts < maxAttempts + 2

\* the condition of the while loops that wait for the link
KeepsWaiting(status, attempts) == status # "WL_CONNECTED" /\ attempts < maxAttempts

\* IPAddress::fromString from position i on: acc the octet being read (-1:
\* no digit yet), dots the dots read, bytes the octets stored
RECURSIVE FromStringLoop(_, _, _, _, _)
FromStringLoop(text, i, acc, dots, bytes) ==
    IF i > Len(text)
    THEN IF dots # 3 \/ acc < 0 THEN [ok |-> FALSE, bytes |-> <<>>]
         ELSE [ok |-> TRUE, bytes |-> Append(bytes, acc)]
    ELSE IF IsDigit(text[i])
    THEN LET next == IF acc < 0 THEN DigitValue(text[i]) ELSE acc * 10 + DigitValue(text[i])
         IN  IF next > 255 THEN [ok |-> FALSE, bytes |-> <<>>]
             ELSE FromStringLoop(text, i + 1, next, dots, bytes)
    ELSE IF text[i] = "."
    THEN IF dots = 3 \/ acc < 0 THEN [ok |-> FALSE, bytes |-> <<>>]
         ELSE FromStringLoop(text, i + 1, -1, dots + 1, Append(bytes, acc))
    ELSE [ok |-> FALSE, bytes |-> <<>>]

\* a parser that takes every text for an address
IPAddress_fromString_any(text) == [ok |-> TRUE, bytes |-> <<0, 0, 0, 0>>]

\* IPAddress::fromString as configureStaticIP calls it
IPAddress_fromString(text) == FromStringLoop(text, 1, -1, 0, <<>>)

\* IPAddress::toString
IPAddress_toString(a) == Dotted(a[1], a[2], a[3], a[4])

\* the gateway workaround of the UNO R4 WiFi: the network address octet by
\* octet, its last octet plus one as a uint8_t
CorrectedGateway(ip, subnet) ==
    LET network == [k \in 1..4 |-> BitAnd(ip[k], subnet[k])]
    IN  [network EXCEPT ![4] = (network[4] + 1) % 256]

\* WebGUI::calculateStaticIP
calculateStaticIP(gateway, subnet, deviceNumber) ==
    IF subnet = <<255, 255, 255, 0>> THEN <<gateway[1], gateway[2], gateway[3], deviceNumber>>
    ELSE IF subnet = <<255, 255, 0, 0>> THEN <<gateway[1], gateway[2], 0, deviceNumber>>
    ELSE IF subnet = <<255, 0, 0, 0>> THEN <<gateway[1], 0, 0, deviceNumber>>
    ELSE <<gateway[1], gateway[2], gateway[3], deviceNumber>>

\* a call of the sketch that returns at once
Returns(op, arg, ret) ==
    /\ trace' = <<Event(op, 0, arg, ret)>>
    /\ UNCHANGED <<persistent, page, backlog, platform, reader, widgets, nextID, elements, millis,
                   connection>>

\* a call of the sketch or a step of it that has not returned yet
Goes ==
    UNCHANGED <<persistent, page, backlog, platform, reader, widgets, nextID, elements, millis,
                connection, trace>>

\* the WiFi calls of a call that starts
Started(op, args) ==
    [wifi EXCEPT !.call = op, !.args = args, !.phase = 0, !.attempts = 0, !.reads = 0,
                 !.begun = 0, !.config = <<>>]

\* WebGUI::startAP
startAP ==
    /\ wifi.pc = "idle"
    /\ wifi.aps = 0
    /\ wifi' = [Started("startAP", <<>>) EXCEPT !.apMode = TRUE, !.aps = wifi.aps + 1]
    /\ Returns("startAP", <<>>, TRUE)

\* WebGUI::connectWiFi up to its loop
connectWiFi ==
    /\ wifi.pc = "idle"
    /\ wifi' = [Started("connectWiFi", <<>>) EXCEPT
                    !.apMode = FALSE, !.begun = 1, !.phase = 1, !.pc = "loop"]
    /\ trace' = <<>>
    /\ UNCHANGED <<persistent, page, backlog, platform, reader, widgets, nextID, elements, millis,
                   connection>>

\* WebGUI::connectWiFiWithStaticIP up to its loop, with WebGUI::configureStaticIP;
\* configured is what WiFi.config returns on the ESP32
connectWiFiWithStaticIP(ip, subnet, gateway, configured) ==
    LET staticIP == IPAddress_fromString(ip)
        subnetMask == IPAddress_fromString(subnet)
        gatewayIP == IPAddress_fromString(gateway)
        call == [Started("connectWiFiWithStaticIP", <<ip, subnet, gateway>>) EXCEPT
                    !.apMode = FALSE]
        given == <<staticIP.bytes, gatewayIP.bytes, subnetMask.bytes>>
    IN  /\ wifi.pc = "idle"
        /\ Board # "ESP32" => configured
        /\ IF ~staticIP.ok \/ ~subnetMask.ok \/ ~gatewayIP.ok
           THEN /\ wifi' = call
                /\ Returns("connectWiFiWithStaticIP", <<ip, subnet, gateway>>, FALSE)
           ELSE IF ~configured
           THEN /\ wifi' = [call EXCEPT !.config = given]
                /\ Returns("connectWiFiWithStaticIP", <<ip, subnet, gateway>>, FALSE)
           ELSE /\ wifi' = [call EXCEPT !.config = given, !.begun = 1, !.phase = 1,
                                         !.pc = "loop"]
                /\ trace' = <<>>
                /\ UNCHANGED <<persistent, page, backlog, platform, reader, widgets, nextID, elements,
                               millis, connection>>

\* WebGUI::autoConfigureNetworkRange up to its first loop
autoConfigureNetworkRange(deviceNumber) ==
    /\ wifi.pc = "idle"
    /\ wifi' = [Started("autoConfigureNetworkRange", <<deviceNumber>>) EXCEPT
                    !.begun = 1, !.phase = 1, !.pc = "loop"]
    /\ trace' = <<>>
    /\ UNCHANGED <<persistent, page, backlog, platform, reader, widgets, nextID, elements, millis,
                   connection>>

\* one test of the while loop that waits for the link, and its body: status
\* is what WiFi.status() returns this time
Wait(status) ==
    /\ wifi.pc = "loop"
    /\ wifi' = IF KeepsWaiting(status, wifi.attempts)
               THEN [wifi EXCEPT !.status = status, !.reads = wifi.reads + 1,
                                 !.attempts = wifi.attempts + 1]
               ELSE [wifi EXCEPT !.status = status, !.reads = wifi.reads + 1,
                                 !.pc = IF wifi.call = "autoConfigureNetworkRange" /\ wifi.phase = 1
                                        THEN "discover" ELSE "result"]
    /\ Goes

\* autoConfigureNetworkRange between its loops: the addresses are what the
\* WiFi object reports, configured what WiFi.config returns on the ESP32
Discover(status, dhcpIP, rawGateway, subnet, configured) ==
    LET gateway == IF Board = "ARDUINO_UNOWIFIR4" THEN CorrectedGateway(dhcpIP, subnet)
                   ELSE rawGateway
        staticIP == calculateStaticIP(gateway, subnet, wifi.args[1])
        read == [wifi EXCEPT !.status = status, !.reads = wifi.reads + 1]
    IN  /\ wifi.pc = "discover"
        /\ Board # "ESP32" => configured
        /\ IF status # "WL_CONNECTED"
           THEN /\ wifi' = [read EXCEPT !.pc = "idle"]
                /\ Returns("autoConfigureNetworkRange", wifi.args, FALSE)
           ELSE IF ~configured
           THEN /\ wifi' = [read EXCEPT !.config = <<staticIP, gateway, subnet>>, !.pc = "idle",
                                         !.args = <<wifi.args[1], dhcpIP, subnet>>]
                /\ Returns("autoConfigureNetworkRange", wifi.args, FALSE)
           ELSE /\ wifi' = [read EXCEPT !.config = <<staticIP, gateway, subnet>>, !.begun = 2,
                                         !.attempts = 0, !.phase = 2, !.pc = "loop",
                                         !.args = <<wifi.args[1], dhcpIP, subnet>>]
                /\ Goes

\* the end of the three connect functions: the status is read once more
\* and decides what is returned
Result(status) ==
    /\ wifi.pc = "result"
    /\ wifi' = [wifi EXCEPT !.status = status, !.reads = wifi.reads + 1, !.pc = "idle"]
    /\ Returns(wifi.call, wifi.args, status = "WL_CONNECTED")

\* WebGUI::getCurrentGateway: the addresses are what the WiFi object reports;
\* the call is logged with the two addresses and the text it returned
getCurrentGateway(ip, subnet, rawGateway) ==
    LET gateway == IF Board = "ARDUINO_UNOWIFIR4" THEN CorrectedGateway(ip, subnet)
                   ELSE rawGateway
    IN  /\ wifi.pc = "idle"
        /\ wifi' = Started("getCurrentGateway", <<ip, subnet>>)
        /\ Returns("getCurrentGateway", <<ip, subnet, IPAddress_toString(gateway)>>, TRUE)

\* the texts a sketch hands to connectWiFiWithStaticIP
StaticTexts ==
    {Dotted(192, 168, 1, 50), Dotted(255, 255, 255, 0), Dotted(192, 168, 1, 256),
     JoinDots(<<<<"1", "9", "2">>, <<"1", "6", "8">>, <<"1">>>>), <<"a", "b", "c">>, <<>>}

\* the addresses and masks the WiFi object reports
ReportedIPs == {<<192, 168, 1, 50>>, <<192, 168, 1, 255>>, <<10, 0, 255, 255>>}

ReportedMasks ==
    {<<255, 255, 255, 0>>, <<255, 255, 0, 0>>, <<255, 0, 0, 0>>, <<255, 255, 255, 255>>}

\* what WiFi.gatewayIP() returns: the gateway, or on the UNO R4 WiFi the mask
ReportedGateways(ip, subnet) ==
    IF Board = "ARDUINO_UNOWIFIR4" THEN {subnet} ELSE {<<ip[1], ip[2], ip[3], 1>>}

\* the device number of the sketch
DeviceNumber == 50

InitWiFi == Init

\* the sketch has made no call yet but, at most, startAP
Fresh == wifi.call \in {"none", "startAP"}

\* the sketch's setup(): one of the connect functions, after startAP or
\* without it, and getCurrentGateway at any time
NextWiFi ==
    \/ startAP
    \/ Fresh /\ connectWiFi
    \/ Fresh /\ \E ip \in StaticTexts, subnet \in StaticTexts, gateway \in StaticTexts,
                     configured \in BOOLEAN :
                     connectWiFiWithStaticIP(ip, subnet, gateway, configured)
    \/ Fresh /\ autoConfigureNetworkRange(DeviceNumber)
    \/ \E status \in Statuses : Wait(status)
    \/ \E status \in Statuses, dhcpIP \in ReportedIPs, subnet \in ReportedMasks, configured \in BOOLEAN :
          \E rawGateway \in ReportedGateways(dhcpIP, subnet) :
              Discover(status, dhcpIP, rawGateway, subnet, configured)
    \/ \E status \in Statuses : Result(status)
    \/ \E ip \in ReportedIPs, subnet \in ReportedMasks :
          \E rawGateway \in ReportedGateways(ip, subnet) : getCurrentGateway(ip, subnet, rawGateway)

\* delay(1000) returns and the loop is tested again; the read of the status
\* after the loop follows it
SpecWiFi == InitWiFi /\ [][NextWiFi]_vars /\ WF_wifi(\E status \in Statuses : Wait(status))
            /\ WF_wifi(\E status \in Statuses : Result(status))
            /\ WF_wifi(\E status \in Statuses, dhcpIP \in ReportedIPs, subnet \in ReportedMasks :
                           \E rawGateway \in ReportedGateways(dhcpIP, subnet) :
                               Discover(status, dhcpIP, rawGateway, subnet, TRUE))

----------------------------------------------------------------------------
(* How a client reads an exchange: the request as it was sent, the response
   as the page's script takes it *)

HasPrefix(s, p) == Len(s) >= Len(p) /\ SubSeq(s, 1, Len(p)) = p

HasSuffix(s, p) == Len(s) >= Len(p) /\ SubSeq(s, Len(s) - Len(p) + 1, Len(s)) = p

\* the characters of s from position i up to the next c, or to the end
RECURSIVE TakeUntil(_, _, _)
TakeUntil(s, i, c) ==
    IF i > Len(s) \/ s[i] = c THEN <<>> ELSE <<s[i]>> \o TakeUntil(s, i + 1, c)

\* the pieces of s between the occurrences of c
RECURSIVE SplitOn(_, _)
SplitOn(s, c) ==
    LET first == TakeUntil(s, 1, c)
    IN  IF Len(first) = Len(s) THEN <<s>>
        ELSE <<first>> \o SplitOn(SubSeq(s, Len(first) + 2, Len(s)), c)

\* the request target of a request line "GET <target> HTTP/1.1"
SentTarget == TakeUntil(inbound.bytes, Len(Chars_GET) + 1, " ")

\* the request was sent whole, blank line included
SentWhole == HasSuffix(inbound.bytes, CRLF \o CRLF)

SentQuery == SubSeq(SentTarget, Len(Path_set) + 2, Len(SentTarget))

\* one segment of a query as the pair it stands for
PairOf(seg) ==
    LET name == TakeUntil(seg, 1, "=")
    IN  IF Len(name) = Len(seg)
        THEN [name |-> seg, value |-> <<>>, eq |-> FALSE]
        ELSE [name |-> name, value |-> SubSeq(seg, Len(name) + 2, Len(seg)), eq |-> TRUE]

\* the pairs of the set-value request that was sent, in the order sent
SentPairs ==
    IF platform = "STREAM"
    THEN LET segs == SplitOn(SentQuery, "&")
         IN  [k \in 1..Len(segs) |-> PairOf(segs[k])]
    ELSE [k \in 1..Len(inbound.args) |->
            [name |-> inbound.args[k][1], value |-> inbound.args[k][2], eq |-> TRUE]]

\* the request of the connection is a set-value request
SetSent ==
    \/ platform = "STREAM" /\ SentWhole /\ HasPrefix(SentTarget, Path_set \o <<"?">>)
    \/ platform = "ESP32" /\ inbound.route = "/set"

\* the request of the connection is a get-values request
GetSent ==
    \/ platform = "STREAM" /\ SentWhole /\ SentTarget = Path_get
    \/ platform = "ESP32" /\ inbound.route = "/get"

RegisteredIds == {widgets[elements[k]].id : k \in 1..Len(elements)}

\* a pair the dispatcher has to pass over: no '=', no name, or a name that is
\* no registered identifier
Ignorable(p) == ~p.eq \/ p.name = <<>> \/ p.name \notin RegisteredIds

RECURSIVE DropIgnorable(_)
DropIgnorable(pairs) ==
    IF pairs = <<>> THEN <<>>
    ELSE IF Ignorable(Head(pairs)) THEN DropIgnorable(Tail(pairs))
    ELSE <<Head(pairs)>> \o DropIgnorable(Tail(pairs))

\* the set-value request a client sends for these pairs
SetRequestFor(pairs) ==
    RequestBytes(Path_set \o <<"?">>
                 \o JoinAmp([k \in 1..Len(pairs) |-> pairs[k].name \o <<"=">> \o pairs[k].value]),
                 <<>>)

\* the body read as a flat JSON object of strings, as response.json() of the
\* page's script reads it: the members in order, or ok = FALSE
RECURSIVE JsonString(_, _, _)
JsonString(s, i, acc) ==
    IF i > Len(s) THEN [ok |-> FALSE, value |-> acc, next |-> i]
    ELSE IF s[i] = "\"" THEN [ok |-> TRUE, value |-> acc, next |-> i + 1]
    ELSE IF s[i] = "\\"
    THEN IF i + 1 > Len(s) THEN [ok |-> FALSE, value |-> acc, next |-> i]
         ELSE JsonString(s, i + 2, Append(acc, s[i + 1]))
    ELSE JsonString(s, i + 1, Append(acc, s[i]))

RECURSIVE JsonMembers(_, _, _)
JsonMembers(s, i, acc) ==
    IF i > Len(s) \/ s[i] # "\"" THEN [ok |-> FALSE, members |-> acc]
    ELSE LET key == JsonString(s, i + 1, <<>>)
         IN  IF ~key.ok \/ key.next + 1 > Len(s) \/ s[key.next] # ":" \/ s[key.next + 1] # "\""
             THEN [ok |-> FALSE, members |-> acc]
             ELSE LET val  == JsonString(s, key.next + 2, <<>>)
                      acc2 == Append(acc, <<key.value, val.value>>)
                  IN  IF ~val.ok \/ val.next > Len(s) THEN [ok |-> FALSE, members |-> acc]
                      ELSE IF s[val.next] = "}"
                      THEN [ok |-> val.next = Len(s), members |-> acc2]
                      ELSE IF s[val.next] = ","
                      THEN JsonMembers(s, val.next + 1, acc2)
                      ELSE [ok |-> FALSE, members |-> acc]

JsonParse(s) ==
    IF s = <<"{", "}">> THEN [ok |-> TRUE, members |-> <<>>]
    ELSE IF Len(s) < 2 \/ s[1] # "{" THEN [ok |-> FALSE, members |-> <<>>]
    ELSE JsonMembers(s, 2, <<>>)

\* the call k calls back in the trace (0: the last)
Back(k) == trace[Len(trace) - k]

\* the step is a call of the sketch that trace took
Logged == Len(trace') > 0 /\ (trace' # trace \/ widgets' # widgets)

----------------------------------------------------------------------------
(* The claims *)

\* how often the pair <id>=1 occurs in the request that was sent
PressCount(id) ==
    Cardinality({k \in 1..Len(SentPairs) :
                    SentPairs[k].eq /\ SentPairs[k].name = id /\ SentPairs[k].value = <<"1">>})

\* C1: once a set-value request has been dispatched, on either platform, every
\* registered Button whose pair <id>=1 occurs exactly once in the query has its
\* one-shot flag set exactly once: the next wasPressed() returns true and the
\* one after it false, whatever the other segments of the query are.
C1_PressedExactlyOnce ==
    (client = "closed" /\ SetSent) =>
        \A k \in 1..Len(elements) :
            LET b == widgets[elements[k]]
            IN  (b.kind = "Button" /\ PressCount(b.id) = 1) =>
                    LET first  == Button_wasPressed(b)
                        second == Button_wasPressed(first.self)
                    IN  first.ret /\ ~second.ret

\* C1 witness: a dispatched query of several segments in which a registered
\* Button's pair comes once, after a segment that is not about this Button.
C1_Witness ==
    /\ client = "closed"
    /\ SetSent
    /\ \E k \in 1..Len(elements) :
          LET b == widgets[elements[k]]
          IN  /\ b.kind = "Button"
              /\ PressCount(b.id) = 1
              /\ Len(SentPairs) >= 2
              /\ SentPairs[1].name # b.id
              /\ b.pressedFlag

\* the last four calls are handleUpdate(v), a consuming read, handleUpdate(v)
\* with the same v, and a consuming read, all of one widget
RepeatedUpdatePattern ==
    /\ Len(trace) >= 4
    /\ Back(3).op = "handleUpdate" /\ Back(2).op = "read"
    /\ Back(1).op = "handleUpdate" /\ Back(0).op = "read"
    /\ Back(3).w = Back(0).w /\ Back(2).w = Back(0).w /\ Back(1).w = Back(0).w
    /\ Back(3).arg = Back(1).arg

\* C2 as stated: for every flag-bearing widget, after handleUpdate(v), a
\* consuming read and a second handleUpdate(v), the next consuming read
\* returns false.
C2_NoRearmAnyWidget == RepeatedUpdatePattern => ~Back(0).ret

\* C2 as amended: the same for a Toggle and a TextBox, and for a Button when v
\* is not "1"; a Button's repeated "1" is a new press and the read returns true.
C2_NoRearmUnlessPress ==
    RepeatedUpdatePattern =>
        LET w == widgets[Back(0).w]
        IN  Back(0).ret = (w.kind = "Button" /\ Back(1).arg = <<"1">>)

\* C2 witness: a Toggle switched on, read (true), sent the same value again
\* and read again.
C2_Witness ==
    /\ RepeatedUpdatePattern
    /\ widgets[Back(0).w].kind = "Toggle"
    /\ Back(2).ret
    /\ widgets[Back(0).w].state

\* C3: a consuming read (wasPressed, wasToggled, wasChanged) returns the flag
\* as it was before the call and leaves it clear, so that a read that follows
\* a read directly returns false; and it does not change the widget's value.
C3_ReadClearsFlag ==
    [][(Logged /\ trace'[Len(trace')].op = "read") =>
          LET e == trace'[Len(trace')]
          IN  /\ e.ret = Flag(widgets[e.w])
              /\ ~Flag(widgets'[e.w])
              /\ getValue(widgets'[e.w]) = getValue(widgets[e.w])
              /\ (Len(trace) > 0 /\ Back(0).op = "read" /\ Back(0).w = e.w) => ~e.ret]_vars

\* C3 witness: two reads in a row, the first true and the second false.
C3_Witness ==
    /\ Len(trace) >= 2
    /\ Back(1).op = "read" /\ Back(0).op = "read"
    /\ Back(1).ret /\ ~Back(0).ret

\* the number a Slider is meant to take from a text: v for String(v), 0 for
\* a text that is no number
MeantInt(text) ==
    IF \E v \in SliderLo..SliderHi : text = IntToStr(v)
    THEN CHOOSE v \in SliderLo..SliderHi : text = IntToStr(v)
    ELSE 0

\* the last call was handleUpdate of a Slider
SliderUpdated ==
    /\ Len(trace) > 0
    /\ Back(0).op = "handleUpdate"
    /\ widgets[Back(0).w].kind = "Slider"

\* C4: after handleUpdate(String(v)) of a Slider, whatever its range and its
\* constructor default, getValue() is String(clamp(v, min, max)); a text that
\* is no number counts as 0.
C4_SliderUpdateClamps ==
    SliderUpdated =>
        LET s == widgets[Back(0).w]
        IN  getValue(s) = IntToStr(Constrain(MeantInt(Back(0).arg), s.minValue, s.maxValue))

\* C5: Slider.handleUpdate leaves the changed flag as it was when the clamped
\* input equals the value held before the call.
C5_SliderFlagOnlyOnChange ==
    [][(Logged /\ trace'[Len(trace')].op = "handleUpdate"
          /\ widgets[trace'[Len(trace')].w].kind = "Slider") =>
          LET e == trace'[Len(trace')]
              s == widgets[e.w]
          IN  Constrain(MeantInt(e.arg), s.minValue, s.maxValue) = s.currentValue
                  => widgets'[e.w].valueChanged = s.valueChanged]_vars

\* C6: every Slider holds minValue <= currentValue <= maxValue, from its
\* construction on.
C6_SliderInRange ==
    \A i \in 1..Len(widgets) :
        widgets[i].kind = "Slider" =>
            /\ widgets[i].minValue <= widgets[i].currentValue
            /\ widgets[i].currentValue <= widgets[i].maxValue

\* C7: the dispatch of a set-value request leaves getValue() of every
\* SensorStatus as it was.
C7_SetLeavesSensorStatus ==
    [][(Dispatch /\ SetSent) =>
          \A i \in 1..Len(widgets) :
              widgets[i].kind = "SensorStatus" =>
                  getValue(widgets'[i]) = getValue(widgets[i])]_vars

\* C8: the response to a get-values request reads as a flat JSON object with
\* one member per registered widget, in registration order, each value the
\* widget's getValue().
C8_GetResponseIsSnapshot ==
    (client = "closed" /\ GetSent) =>
        LET got == JsonParse(response.body)
        IN  /\ got.ok
            /\ got.members = [k \in 1..Len(elements) |->
                                <<widgets[elements[k]].id, getValue(widgets[elements[k]])>>]

ExpectedType ==
    IF platform = "STREAM"
    THEN IF HasPrefix(SentTarget, Path_set \o <<"?">>) THEN "text/plain"
         ELSE IF SentTarget = Path_get THEN "application/json"
         ELSE "text/html"
    ELSE IF inbound.route = "/set" /\ inbound.args # <<>> THEN "text/plain"
         ELSE IF inbound.route = "/get" THEN "application/json"
         ELSE "text/html"

\* C10: every request sent whole is answered 200 with the content its
\* request line asks for, whatever its headers hold.
C10_ClassifiedByRequestLine ==
    (client = "closed" /\ (platform = "STREAM" => SentWhole)) =>
        /\ response.status = 200
        /\ response.type = ExpectedType

----------------------------------------------------------------------------
(* The claims about the settings *)

\* a string value that a slot of the flash block or of the EEPROM takes whole
Fits(type, value) == type = "string" /\ storage # "Preferences" => Len(value) <= 15

\* C13: on every storage strategy, a saveSetting(k, v) directly followed by
\* the load of the same type and key returns v (for a string on the flash and
\* EEPROM strategies: one of at most 15 characters).
C13_SaveThenLoad ==
    (/\ Len(trace) >= 2
     /\ Back(1).op = "save" /\ Back(0).op = "load"
     /\ Back(1).type = Back(0).type /\ Back(1).key = Back(0).key
     /\ Fits(Back(1).type, Back(1).value))
        => Back(0).value = Back(1).value

\* C14: on the EEPROM strategy, after a string of more than 15 characters was
\* saved, loadStringSetting of its key returns its first 15 characters.
C14_LongStringTruncated ==
    (/\ storage = "EEPROM"
     /\ Len(trace) >= 1
     /\ Back(0).op = "save" /\ Back(0).type = "string"
     /\ Len(Back(0).value) > 15)
        => LoadSetting("string", Back(0).key) = SubSeq(Back(0).value, 1, 15)

\* no saveSetting of the type and key was called in this run
NeverSaved(type, key) ==
    \A n \in 1..Len(trace) :
        ~(trace[n].op = "save" /\ trace[n].type = type /\ trace[n].key = key)

\* C15: the load of a key that was never saved returns the zero value of its
\* type: 0, 0.0, false or the empty string, on every storage strategy.
C15_AbsentKeyLoadsDefault ==
    (/\ Len(trace) >= 1
     /\ Back(0).op = "load"
     /\ NeverSaved(Back(0).type, Back(0).key))
        => Back(0).value = Default(Back(0).type)

\* the step is a call of a settings function
Called == Len(trace') = Len(trace) + 1

\* the cells of the slot that saveSetting gives the key: the 16 bytes from its
\* address on, for a bool the one byte
SlotCells(type, key) ==
    IF type = "bool" THEN {SaveAddr(type, key)}
    ELSE SaveAddr(type, key)..(SaveAddr(type, key) + 15)

\* C16: on the EEPROM strategy, when a save of one key is directly followed
\* by a save, of the same type, of another key with the same slot, a load of
\* either key returns the value saved last, and no cell outside that slot
\* has changed.
C16_LastWriterWins ==
    [][(/\ storage = "EEPROM"
        /\ Called
        /\ Len(trace) >= 1
        /\ Back(0).op = "save" /\ trace'[Len(trace')].op = "save"
        /\ Back(0).type = trace'[Len(trace')].type
        /\ Back(0).key # trace'[Len(trace')].key
        /\ SaveAddr(Back(0).type, Back(0).key)
             = SaveAddr(Back(0).type, trace'[Len(trace')].key))
          => LET e == trace'[Len(trace')]
             IN  /\ LoadFrom(nvs', flash', eeprom', e.type, Back(0).key) = e.value
                 /\ LoadFrom(nvs', flash', eeprom', e.type, e.key) = e.value
                 /\ \A a \in (DOMAIN eeprom \cup DOMAIN eeprom') \ SlotCells(e.type, e.key) :
                        EepromRead(eeprom', a) = EepromRead(eeprom, a)]_vars

\* C17: after clearMemory, the load of any key of any type returns the zero
\* value, whatever was saved before and whether initSettings was called or not.
C17_ClearMemoryClearsAll ==
    (Len(trace) >= 1 /\ Back(0).op = "clearMemory") =>
        \A type \in Types, key \in SettingKeys :
            LoadSetting(type, key) = Default(type)

\* the keys of the type that the flash block holds
FlashKeys(f, type) ==
    {f.keys[KeyBase(type) + i] : i \in 1..FlashSlots} \ {<<>>}

\* the slots of the type that hold a key
FlashUsed(f, type) == {i \in 1..FlashSlots : f.keys[KeyBase(type) + i] # <<>>}

\* every key a sketch of the model or its former run uses
KnownKeys == SettingKeys \cup {FillerKey(n) : n \in 1..FlashSlots}

\* C18: on the flash strategy each type holds up to 10 keys independently: a
\* save of a key that is stored or finds a free slot makes that key load its
\* value and changes what no other key of any type loads; a save to a stored
\* key takes no new slot; a save of an 11th key of a type changes nothing.
C18_FlashTenPerType ==
    [][(/\ storage = "FlashStorage"
        /\ Called
        /\ trace'[Len(trace')].op = "save")
          => LET e    == trace'[Len(trace')]
                 had  == e.key \in FlashKeys(flash, e.type)
                 full == Cardinality(FlashUsed(flash, e.type)) = FlashSlots
             IN  /\ (had \/ ~full) /\ Fits(e.type, e.value)
                        => LoadFrom(nvs', flash', eeprom', e.type, e.key) = e.value
                 /\ \A t \in Types, k \in KnownKeys :
                        (t # e.type \/ k # e.key) => LoadFrom(nvs', flash', eeprom', t, k) = LoadSetting(t, k)
                 /\ had => FlashUsed(flash', e.type) = FlashUsed(flash, e.type)
                 /\ (~had /\ full) => flash' = flash]_vars

\* C18 witness: ten keys of a type are stored and the save of an eleventh
\* was called.
C18_Witness ==
    /\ storage = "FlashStorage"
    /\ Len(trace) >= 2
    /\ Back(0).op = "save"
    /\ Back(1).op = "save" /\ Back(1).type = Back(0).type
    /\ Back(1).key \in FlashKeys(flash, Back(0).type)
    /\ Back(0).key \notin FlashKeys(flash, Back(0).type)
    /\ Cardinality(FlashUsed(flash, Back(0).type)) = FlashSlots

----------------------------------------------------------------------------
(* The claims about loop() *)

\* the Buttons and Toggles the sketch has registered
Polled == {i \in 1..Len(widgets) : HasFlag(widgets[i]) /\ \E k \in 1..Len(elements) : elements[k] = i}

\* C11: a call of update() with a client waiting serves that client alone:
\* it dispatches the one request of that connection and closes the
\* connection; a connection pending
\* behind it is left as it is, its request has no effect on the widgets in
\* this call, and it is served by a later call of update().
C11_OneClientPerUpdate ==
    /\ [][Dispatch =>
            /\ backlog' = backlog
            /\ inbound' = inbound
            /\ ~SetSent => \A i \in Polled : widgets'[i] = widgets[i]]_vars
    /\ [][Len(backlog') < Len(backlog) =>
            /\ client = "closed"
            /\ client' = "waiting"
            /\ inbound' = Head(backlog)]_vars
    /\ (backlog # <<>>) ~> (backlog = <<>>)
    /\ (client = "waiting") ~> (client = "closed")

\* C11 witness: update() has answered and closed one connection while a
\* second one is still pending.
C11_Witness ==
    /\ client = "closed"
    /\ response # NoResponse
    /\ backlog # <<>>
    /\ backlog[1] # inbound

\* the request being dispatched asks for an edge of widget i: a pair <id>=1
\* for a Button, a pair for a Toggle whose value is not the Toggle's state
EdgeSent(i) ==
    /\ SetSent
    /\ i \in Polled
    /\ \E k \in 1..Len(SentPairs) :
          /\ SentPairs[k].eq
          /\ SentPairs[k].name = widgets[i].id
          /\ IF widgets[i].kind = "Button"
             THEN SentPairs[k].value = <<"1">>
             ELSE widgets[i].kind = "Toggle"
                  /\ (SentPairs[k].value \in {<<"1">>, Chars_true}) # widgets[i].state

\* the step is the sketch's reads after update() has returned
Reads ==
    /\ trace' # <<>>
    /\ nextID' = nextID
    /\ elements' = elements
    /\ \/ client = "closed" /\ client' # "closed"
       \/ client = "none" /\ client' = "none"

\* C12: in a loop that reads every flag after every update(), an update()
\* sets the flag of a Button or Toggle exactly when the request it dispatched
\* asks for an edge of that widget, the reads that follow return true for
\* exactly the widgets whose flag is set and clear it, and reads that follow
\* an update() that dispatched nothing all return false.
C12_NoEdgeLostOrInvented ==
    [][/\ Dispatch =>
            \A i \in 1..Len(widgets) : HasFlag(widgets[i]) => (Flag(widgets'[i]) = EdgeSent(i))
       /\ Reads =>
            \A i \in 1..Len(widgets) : HasFlag(widgets[i]) =>
                /\ trace'[1].ret[i] = Flag(widgets[i])
                /\ ~Flag(widgets'[i])
                /\ client = "none" => ~trace'[1].ret[i]]_vars

\* C12 witness: the reads after an update() that dispatched a set-value
\* request returned true for a Toggle, whose flag is clear again.
C12_Witness ==
    /\ trace # <<>>
    /\ trace[1].op = "poll"
    /\ \E i \in 1..Len(trace[1].ret) :
          /\ widgets[i].kind = "Toggle"
          /\ trace[1].ret[i]
          /\ ~widgets[i].stateChanged
          /\ widgets[i].state

----------------------------------------------------------------------------
(* The claims about the page *)

\* the pieces that close the value of an id attribute in the widgets' markup
IdClosers == {"\"", "_value\"", "_display\""}

\* the pieces of html from position k up to the piece that closes the attribute
RECURSIVE IdFrom(_, _)
IdFrom(html, k) ==
    IF k > Len(html) \/ html[k] \in IdClosers THEN <<>>
    ELSE <<html[k]>> \o IdFrom(html, k + 1)

\* the widget identifiers of the id attributes of html between the positions
\* lo and hi (a Slider's value span apart, which goes with the Slider's own
\* input), in the order they come
RECURSIVE MarkupIdsIn(_, _, _)
MarkupIdsIn(html, lo, hi) ==
    IF lo > hi THEN <<>>
    ELSE IF lo = hi
    THEN IF html[lo] # "id=\"" THEN <<>>
         ELSE LET id == IdFrom(html, lo + 1)
                  closer == lo + 1 + Len(id)
              IN  IF closer > Len(html) \/ html[closer] = "_value\"" THEN <<>> ELSE <<id>>
    ELSE LET half == (lo + hi) \div 2
         IN  MarkupIdsIn(html, lo, half) \o MarkupIdsIn(html, half + 1, hi)

MarkupIds(html) == MarkupIdsIn(html, 1, Len(html))

\* a page has been rendered for the client
PageSent == client = "closed" /\ response.type = "text/html"

\* the page of this registry as the streaming builds print it
Streamed ==
    IF platform = "STREAM" THEN response.body
    ELSE streamHTML(pageTitle, pageHeading, elements, widgets)

\* the page of this registry as the ESP32 build builds it in memory
Buffered ==
    IF platform = "ESP32" THEN response.body
    ELSE generateHTML(pageTitle, pageHeading, customCSS, useCustomStyles, elements, widgets)

\* C19: for one registry, the streamed page and the page built in memory
\* both carry the markup of every registered widget exactly once, in the
\* order of registration.
C19_SameIdentifiersSameOrder ==
    PageSent =>
        /\ MarkupIds(Streamed) = RenderedElements(elements, widgets)
        /\ MarkupIds(Buffered) = RenderedElements(elements, widgets)

\* what a piece of the shell stands for
ShellValue(piece) ==
    CASE piece = "%TITLE%" -> pageTitle
      [] piece = "%HEADING%" -> pageHeading
      [] piece = "%CSS%" -> generateCSS(customCSS, useCustomStyles)
      [] piece = "%ELEMENTS%" -> elementsHTML(elements, widgets, 1)
      [] piece = "%JAVASCRIPT%" -> generateJS(elements, widgets)
      [] OTHER -> <<piece>>

\* the shell with each placeholder given way to its value, the values as they are
RECURSIVE Wholesale(_)
Wholesale(shell) ==
    IF shell = <<>> THEN <<>> ELSE ShellValue(Head(shell)) \o Wholesale(Tail(shell))

\* C20: the page generateHTML builds is the shell with each of the five
\* placeholders replaced by its value as a whole: text of a title, heading,
\* CSS string or label that reads like a placeholder is in the page as it
\* was given.
C20_PlaceholdersWholesale ==
    (PageSent /\ platform = "ESP32") => response.body = Wholesale(HTML_TEMPLATE)

----------------------------------------------------------------------------
(* The claims about the Toggle and the Button *)

\* the step is handleUpdate of a widget of this class, called by the sketch
Updates(kind) ==
    /\ Logged
    /\ trace'[Len(trace')].op = "handleUpdate"
    /\ widgets[trace'[Len(trace')].w].kind = kind

\* C24: Toggle.handleUpdate(v) leaves the state on exactly when v is "1" or
\* "true"; the changed flag is set when the state differs from the state
\* before the call and keeps its value otherwise; getValue() is "1" for on
\* and "0" for off.
C24_ToggleUpdate ==
    [][Updates("Toggle") =>
          LET e == trace'[Len(trace')]
              before == widgets[e.w]
              after == widgets'[e.w]
          IN  /\ after.state = (e.arg \in {<<"1">>, Chars_true})
              /\ after.stateChanged = (before.stateChanged \/ after.state # before.state)
              /\ getValue(after) = (IF after.state THEN <<"1">> ELSE <<"0">>)]_vars

\* C24 witness: a Toggle that is on and was read takes "false": it is off
\* and its flag is set again.
C24_Witness ==
    /\ Len(trace) >= 3
    /\ Back(2).op = "handleUpdate" /\ Back(2).arg = Chars_true
    /\ Back(1).op = "read" /\ Back(1).ret
    /\ Back(0).op = "handleUpdate" /\ Back(0).arg = Chars_false
    /\ widgets[Back(0).w].kind = "Toggle"
    /\ ~widgets[Back(0).w].state
    /\ widgets[Back(0).w].stateChanged

\* the last calls are n handleUpdate("1") of a Button and two reads
Presses(n) ==
    /\ Len(trace) >= n + 2
    /\ widgets[Back(0).w].kind = "Button"
    /\ Back(0).op = "read" /\ Back(1).op = "read"
    /\ \A k \in 2..(n + 1) : Back(k).op = "handleUpdate" /\ Back(k).arg = <<"1">>

\* C25: Button.handleUpdate("1") inverts pressed and sets the one-shot flag,
\* any other value leaves the Button as it is, time of the last press
\* included; after one or more "1" with no read in between the first
\* wasPressed() returns true and the one after it false.
C25_ButtonPress ==
    /\ [][Updates("Button") =>
             LET e == trace'[Len(trace')]
                 before == widgets[e.w]
                 after == widgets'[e.w]
             IN  IF e.arg = <<"1">>
                 THEN after.pressed = ~before.pressed /\ after.pressedFlag
                 ELSE after = before]_vars
    /\ [](\A n \in 1..(MaxTrace - 2) : Presses(n) => (Back(1).ret /\ ~Back(0).ret))

\* C25 witness: two presses in a row, then a read that returns true and one
\* that returns false, the Button being as it was before the presses.
C25_Witness ==
    /\ Presses(2)
    /\ Back(1).ret /\ ~Back(0).ret
    /\ ~widgets[Back(0).w].pressed

----------------------------------------------------------------------------
(* The claim about the identifiers *)

\* the widgets that carry this identifier
Resolves(id) == {i \in 1..Len(widgets) : widgets[i].id = id}

\* C26: the widgets constructed carry the identifiers element0, element1, ...
\* in the order of their construction, the counter being the number of
\* widgets constructed; the counter never goes down, a widget keeps its
\* identifier whatever is done to it, a new widget takes the counter's value,
\* and every registered identifier is the identifier of one widget alone.
C26_IdentifiersUnique ==
    /\ [](/\ nextID = Len(widgets)
          /\ \A i \in 1..Len(widgets) : widgets[i].id = ElementID(i - 1)
          /\ \A i, j \in 1..Len(widgets) : i # j => widgets[i].id # widgets[j].id
          /\ \A k \in 1..Len(elements) :
                Resolves(widgets[elements[k]].id) = {elements[k]})
    /\ [][/\ nextID' >= nextID
           /\ Len(widgets') >= Len(widgets)
           /\ \A i \in 1..Len(widgets) : widgets'[i].id = widgets[i].id
           /\ Len(widgets') > Len(widgets) =>
                 /\ nextID' = nextID + 1
                 /\ widgets'[Len(widgets')].id = Chars_element \o IntToStr(nextID)]_vars

\* C26 witness: two widgets constructed and registered, the second one
\* registered first, and a set-value request has changed the second.
C26_Witness ==
    /\ Len(widgets) = 2
    /\ elements = <<2, 1>>
    /\ client = "closed"
    /\ SetSent
    /\ HasFlag(widgets[2]) /\ Flag(widgets[2])
    /\ widgets[2].id = Chars_element \o <<"1">>

----------------------------------------------------------------------------
(* The claim about the answer to a set-value request *)

\* the pairs of the request sent that name a registered widget
Matched == {k \in 1..Len(SentPairs) : ~Ignorable(SentPairs[k])}

\* C30: once a set-value request has been dispatched, on either platform,
\* the response is 200, text/plain, OK, whether none, some or all of its
\* pairs name a registered widget.
C30_SetAnsweredOK ==
    (client = "closed" /\ SetSent) =>
        /\ response.status = 200
        /\ response.type = "text/plain"
        /\ response.body = <<"O", "K">>

\* C30 witness: a dispatched set-value request of two pairs of which one
\* names a registered widget and the other does not, answered OK.
C30_Witness ==
    /\ client = "closed"
    /\ SetSent
    /\ Len(SentPairs) = 2
    /\ Cardinality(Matched) = 1
    /\ response.body = <<"O", "K">>

----------------------------------------------------------------------------
(* The claim about the style sheet of the page *)

\* the pieces that end the style block of the two shells
StyleClosers ==
    {"</style></head><body><div class=\"container\"><h1>", "</style></head><body><h1>"}

\* what a page carries between <style> and </style>
StyleBlock(html) ==
    LET opener == CHOOSE i \in 1..Len(html) :
                      /\ html[i] = "</title><style>"
                      /\ \A k \in 1..(i - 1) : html[k] # "</title><style>"
        closer == CHOOSE j \in (opener + 1)..Len(html) :
                      /\ html[j] \in StyleClosers
                      /\ \A k \in (opener + 1)..(j - 1) : html[k] \notin StyleClosers
    IN  SubSeq(html, opener + 1, closer - 1)

\* the style sheets built into the library
BuiltInCSS == {getDefaultCSS, WEBGUI_DEFAULT_CSS}

\* C21: a page request is served the style sheet the caller set with
\* setCustomCSS or setTheme in place of the built-in one, whether the page is
\* built in memory or streamed, and the built-in one when no custom style is
\* in force (at the start and after useDefaultStyles); the style sheet
\* setTheme installs for a theme other than the default one is not the
\* built-in one.
C21_CallerStylesServed ==
    /\ [](PageSent =>
            IF useCustomStyles
            THEN StyleBlock(response.body) = customCSS
            ELSE StyleBlock(response.body) \in BuiltInCSS)
    /\ [][setTheme(WEBGUI_DARK_THEME) => customCSS' \notin BuiltInCSS]_vars

----------------------------------------------------------------------------
(* The claims about the network texts *)

\* the value of a group of decimal digits
RECURSIVE Decimal(_)
Decimal(g) == IF g = <<>> THEN 0 ELSE 10 * Decimal(SubSeq(g, 1, Len(g) - 1)) + DigitValue(g[Len(g)])

\* a group of an IPv4 address in text: one to three decimal digits, at most
\* 255, with no leading zero but for the single digit 0
IsOctetText(g) ==
    /\ Len(g) \in 1..3
    /\ \A k \in 1..Len(g) : IsDigit(g[k])
    /\ Decimal(g) <= 255
    /\ (g[1] = "0" => Len(g) = 1)

\* exactly four groups between dots, each the text of an octet
IsIPv4Text(s) ==
    LET groups == SplitOn(s, ".")
    IN  Len(groups) = 4 /\ \A k \in 1..4 : IsOctetText(groups[k])

\* the last call of the sketch was op
LastCall(op) == trace # <<>> /\ Back(0).op = op

\* C22: isValidIPAddress(s) returns true exactly when s is four groups
\* separated by dots, each of one to three decimal digits, at most 255 and
\* with no leading zero but for the single digit 0; it is true for
\* 192.168.1.1 and false for 192.168.1.256, 192.168.01.1, 192.168.1 and the
\* empty text.
C22_ValidIPv4Text ==
    /\ LastCall("isValidIPAddress") => (Back(0).ret <=> IsIPv4Text(Back(0).arg))
    /\ TextBox_isValidIPAddress(Dotted(192, 168, 1, 1))
    /\ ~TextBox_isValidIPAddress(Dotted(192, 168, 1, 256))
    /\ ~TextBox_isValidIPAddress(
            JoinDots(<<<<"1", "9", "2">>, <<"1", "6", "8">>, <<"0", "1">>, <<"1">>>>))
    /\ ~TextBox_isValidIPAddress(JoinDots(<<<<"1", "9", "2">>, <<"1", "6", "8">>, <<"1">>>>))
    /\ ~TextBox_isValidIPAddress(<<>>)

\* a text with a leading zero in one group and nothing else wrong was refused
C22_Witness ==
    /\ LastCall("isValidIPAddress")
    /\ Back(0).arg = JoinDots(<<<<"1", "9", "2">>, <<"0", "1">>, <<"0">>, <<"2", "5", "5">>>>)
    /\ ~Back(0).ret

\* the octets of an address given in text
Octets(s) == LET groups == SplitOn(s, ".") IN [k \in 1..4 |-> Decimal(groups[k])]

\* the bits of an octet, the highest first
RECURSIVE OctetBits(_, _)
OctetBits(b, n) == IF n = 0 THEN <<>> ELSE OctetBits(b \div 2, n - 1) \o <<b % 2>>

\* the 32 bits of an address
AddressBits(o) == OctetBits(o[1], 8) \o OctetBits(o[2], 8) \o OctetBits(o[3], 8) \o OctetBits(o[4], 8)

\* a mask of ones followed by zeros only
IsContiguousMask(s) ==
    /\ IsIPv4Text(s)
    /\ \E n \in 0..32 : \A k \in 1..32 : AddressBits(Octets(s))[k] = (IF k <= n THEN 1 ELSE 0)

\* two addresses have the same bits wherever the mask has a one
SameSubnet(ip, subnet, gateway) ==
    \A k \in 1..32 :
        AddressBits(Octets(subnet))[k] = 1
            => AddressBits(Octets(ip))[k] = AddressBits(Octets(gateway))[k]

\* C23: validateNetworkConfig(ip, subnet, gateway) returns true only when ip
\* and gateway are IPv4 texts, subnet is the text of a contiguous mask, and ip
\* and gateway agree in every bit of the mask, whatever the mask; it is true
\* for (192.168.1.50, 255.255.255.0, 192.168.1.1) and false for
\* (192.168.1.50, 255.255.255.0, 10.0.0.1).
C23_SameSubnetOnly ==
    /\ LastCall("validateNetworkConfig") /\ Back(0).ret
        => /\ IsIPv4Text(Back(0).arg[1])
           /\ IsIPv4Text(Back(0).arg[3])
           /\ IsContiguousMask(Back(0).arg[2])
           /\ SameSubnet(Back(0).arg[1], Back(0).arg[2], Back(0).arg[3])
    /\ TextBox_validateNetworkConfig(Dotted(192, 168, 1, 50), Dotted(255, 255, 255, 0),
                                     Dotted(192, 168, 1, 1))
    /\ ~TextBox_validateNetworkConfig(Dotted(192, 168, 1, 50), Dotted(255, 255, 255, 0),
                                      Dotted(10, 0, 0, 1))

----------------------------------------------------------------------------
(* The claims about joining a network *)

\* the two functions that join the network the sketch names
JoinCalls == {"connectWiFi", "connectWiFiWithStaticIP"}

\* one of them has returned
Joined == wifi.pc = "idle" /\ wifi.call \in JoinCalls /\ trace # <<>>

\* the rest of C27 apart from the count of the status reads: the call
\* returns; it returns true exactly when it has read the status and the
\* last read found the link connected; no access point is started in the
\* call and apMode is false when it returns
JoinReturns ==
    /\ (wifi.call \in JoinCalls /\ wifi.pc # "idle") ~> (wifi.pc = "idle")
    /\ [](Joined => (Back(0).ret <=> (wifi.reads > 0 /\ wifi.status = "WL_CONNECTED")))
    /\ [](wifi.call \in JoinCalls => ~wifi.apMode)
    /\ [][wifi'.call \in JoinCalls => wifi'.aps = wifi.aps]_vars

\* C27 as stated: connectWiFi and connectWiFiWithStaticIP return, having
\* read the link status at most 30 times; they return true exactly when the
\* last read found the link connected, and start no access point.
C27_ThirtyPolls ==
    /\ [](wifi.call \in JoinCalls => wifi.reads <= maxAttempts)
    /\ JoinReturns

\* C27, amended: connectWiFi and connectWiFiWithStaticIP return, having
\* waited for the link at most 30 times and read its status at most 32
\* times (before each wait, when the loop ends and once more for the
\* result); they return true exactly when the last read found the link
\* connected, and start no access point.
C27_ThirtyWaits ==
    /\ [](wifi.call \in JoinCalls =>
            /\ wifi.attempts <= maxAttempts
            /\ wifi.reads <= wifi.attempts + 2
            /\ wifi.reads <= maxAttempts + 2)
    /\ JoinReturns

\* a join gave up after 30 waits and returned false, no access point started
C27_Witness ==
    /\ Joined
    /\ wifi.attempts = maxAttempts
    /\ wifi.reads = maxAttempts + 2
    /\ ~Back(0).ret
    /\ ~wifi.apMode

\* a text that reads as an IPv4 address: four groups of decimal digits
\* between dots, each at most 255
IsAddressText(s) ==
    LET groups == SplitOn(s, ".")
    IN  /\ Len(groups) = 4
        /\ \A k \in 1..4 : /\ groups[k] # <<>>
                            /\ \A j \in 1..Len(groups[k]) : IsDigit(groups[k][j])
                            /\ Decimal(groups[k]) <= 255

\* connectWiFiWithStaticIP was called with a text that is no address
BadStaticCall ==
    /\ wifi.call = "connectWiFiWithStaticIP"
    /\ \E k \in 1..3 : ~IsAddressText(wifi.args[k])

\* C28: connectWiFiWithStaticIP called with an ip, subnet or gateway text
\* that does not read as an IPv4 address returns false at once: WiFi.begin
\* and WiFi.config are not called, the link status is not waited for, and
\* the objects of the library are as they were before the call (no restart,
\* no abort).
C28_BadTextNoJoin ==
    /\ [](BadStaticCall =>
            /\ wifi.pc = "idle"
            /\ wifi.begun = 0 /\ wifi.config = <<>> /\ wifi.reads = 0 /\ wifi.attempts = 0
            /\ trace = <<Event("connectWiFiWithStaticIP", 0, wifi.args, FALSE)>>)
    /\ [][wifi.pc = "idle" /\ wifi'.pc = "idle" /\ wifi'.call = "connectWiFiWithStaticIP" =>
            UNCHANGED <<persistent, page, backlog, platform, reader, widgets, nextID, elements, millis,
                        connection>>]_vars

\* the call was made with a subnet text that is no address, after startAP
C28_Witness ==
    /\ BadStaticCall
    /\ wifi.args = <<Dotted(192, 168, 1, 50), <<"a", "b", "c">>, Dotted(192, 168, 1, 50)>>
    /\ wifi.aps = 1
    /\ ~Back(0).ret

\* the octets of a 32-bit value
WordOctets(w) == <<w.hi \div 256, w.hi % 256, w.lo \div 256, w.lo % 256>>

\* (ip AND subnet) + 1 as a 32-bit address
NetworkPlusOne(ip, subnet) ==
    WordOctets(WordInc(WordAnd(Word(ip[1], ip[2], ip[3], ip[4]),
                               Word(subnet[1], subnet[2], subnet[3], subnet[4]))))

\* C29: on the UNO R4 WiFi the gateway getCurrentGateway returns, and the
\* gateway autoConfigureNetworkRange hands to WiFi.config, is the 32-bit
\* address (localIP AND subnetMask) + 1 for every address and mask, the carry
\* out of a last octet of 255 included.
C29_GatewayIsNetworkPlusOne ==
    Board = "ARDUINO_UNOWIFIR4" =>
        /\ LastCall("getCurrentGateway") =>
              Back(0).arg[3] = IPAddress_toString(NetworkPlusOne(Back(0).arg[1], Back(0).arg[2]))
        /\ (wifi.call = "autoConfigureNetworkRange" /\ wifi.config # <<>>) =>
              wifi.config[2] = NetworkPlusOne(wifi.args[2], wifi.args[3])

----------------------------------------------------------------------------
(* The claim about clearMemory and the saved settings *)

\* the step is a call of clearMemory
Clears == Called /\ trace'[Len(trace')].op = "clearMemory"

----------------------------------------------------------------------------
(* The claim about the order in which the pairs of a query are applied *)

\* a value that holds a '='
Value_withEquals == <<"1", "=", "0">>

\* the values of the pairs: in the Slider's range, above it, and one with '='
PairValues == {<<"0">>, <<"5">>, Value_withEquals}

\* the widgets of the sketch: a Slider from 0 to 2 that starts at 1
QueryTemplates ==
    {Template(k, Label_plain, 0, 0, 0) : k \in {"Toggle", "TextBox"}}
    \cup {Template("Slider", Label_plain, 0, 2, 1)}

\* the queries: up to MaxPairs pairs, the same identifier allowed twice
PairLists ==
    UNION {[1..n -> {<<id, v>> : id \in WidgetIds, v \in PairValues}] : n \in 1..MaxPairs}

QueryRequests(build) ==
    IF build = "STREAM"
    THEN {[route |-> "", args |-> <<>>,
           bytes |-> RequestBytes(Path_set \o <<"?">>
                        \o JoinAmp([k \in 1..Len(l) |-> l[k][1] \o <<"=">> \o l[k][2]]), <<>>)] :
             l \in PairLists}
    ELSE {[route |-> "/set", args |-> l, bytes |-> <<>>] : l \in PairLists}

NextQuery ==
    \/ \E t \in QueryTemplates : Construct(t)
    \/ \E i \in 1..Len(widgets) : addElement(i)
    \/ \E req \in QueryRequests(platform) : Connect(req)
    \/ processClient
    \/ DoHandleSet
    \/ Finish

SpecQuery == Init /\ [][NextQuery]_vars

\* the positions in the registration list of the widgets of the name
Registered(name) == {k \in 1..Len(elements) : widgets[elements[k]].id = name}

\* one pair applied: one handleUpdate with the value, on the first registered
\* widget of the name, and nothing where no widget has the name
ApplyPair(p, ws) ==
    IF ~p.eq \/ p.name = <<>> \/ Registered(p.name) = {} THEN ws
    ELSE LET k == CHOOSE h \in Registered(p.name) : \A j \in Registered(p.name) : h <= j
         IN  [ws EXCEPT ![elements[k]] = handleUpdate(ws[elements[k]], p.value, millis)]

\* the pairs applied from the left to the right
RECURSIVE ApplyPairs(_, _)
ApplyPairs(pairs, ws) ==
    IF pairs = <<>> THEN ws ELSE ApplyPairs(Tail(pairs), ApplyPair(Head(pairs), ws))

\* the positions of the pairs that name the identifier
Occurrences(name) == {k \in 1..Len(SentPairs) : SentPairs[k].eq /\ SentPairs[k].name = name}

\* the last of the pairs that name the identifier
LastOccurrence(name) ==
    SentPairs[CHOOSE k \in Occurrences(name) : \A j \in Occurrences(name) : k >= j]

----------------------------------------------------------------------------
(* The claim about the EEPROM ranges of the four types *)

\* the cells the load function of the type reads for the key
LoadCells(type, key) ==
    IF type = "string" THEN LoadAddr(type, key)..(LoadAddr(type, key) + 15)
    ELSE LoadAddr(type, key)..(LoadAddr(type, key) + Len(Default(type)) - 1)

\* C33: on the EEPROM strategy the ranges of the four types are disjoint: a
\* save of one type under any key leaves what every key of every other type
\* loads as it was, and writes no cell a load of another type reads.
C33_TypesDisjoint ==
    [][(/\ storage = "EEPROM"
        /\ Called
        /\ trace'[Len(trace')].op = "save")
          => LET e == trace'[Len(trace')]
             IN  \A type \in Types \ {e.type}, key \in SettingKeys :
                    /\ LoadFrom(nvs', flash', eeprom', type, key) = LoadSetting(type, key)
                    /\ \A a \in LoadCells(type, key) :
                          EepromRead(eeprom', a) = EepromRead(eeprom, a)]_vars

----------------------------------------------------------------------------
(* The claims about the flags between a client's update and the sketch's read *)

\* C34 as stated: no handleUpdate clears a pending flag: the flag of a Button, a Toggle
\* or a TextBox that is set before a handleUpdate, whatever its value, is set
\* after it, so that a change of a TextBox followed by the same value again
\* is still reported by the next wasChanged().
C34_UpdateKeepsFlag ==
    [][(Logged /\ trace'[Len(trace')].op = "handleUpdate"
          /\ HasFlag(widgets[trace'[Len(trace')].w])) =>
          LET e == trace'[Len(trace')]
          IN  Flag(widgets[e.w]) => Flag(widgets'[e.w])]_vars

\* C34, amended: the handleUpdate of a Button or a Toggle never clears a
\* pending flag; the handleUpdate of a TextBox overwrites the flag: it is set
\* after the call exactly when the text received differs from the text held
\* before, so that the same text again before the read clears a pending flag.
C34_UpdateLatchesOrOverwrites ==
    [][(Logged /\ trace'[Len(trace')].op = "handleUpdate"
          /\ HasFlag(widgets[trace'[Len(trace')].w])) =>
          LET e == trace'[Len(trace')]
              w == widgets[e.w]
          IN  IF w.kind = "TextBox"
              THEN Flag(widgets'[e.w]) = (e.arg # w.textValue)
              ELSE Flag(w) => Flag(widgets'[e.w])]_vars

\* C34 witness: a TextBox that took a new text and then the same text again,
\* with no read in between, and whose flag is clear.
C34_Witness ==
    /\ Len(trace) >= 2
    /\ Back(1).op = "handleUpdate" /\ Back(0).op = "handleUpdate"
    /\ Back(1).w = Back(0).w /\ Back(1).arg = Back(0).arg
    /\ widgets[Back(0).w].kind = "TextBox"
    /\ widgets[Back(0).w].textValue = Back(0).arg
    /\ widgets[Back(0).w].lastValue = Back(0).arg
    /\ ~widgets[Back(0).w].valueChanged

\* the calls by which the sketch sets what a widget shows
SetterOps ==
    {"setState", "setValue", "setValue(int)", "setValue(bool)", "setIPAddress",
     "Slider::setValue", "Slider::setRange"}

\* the changed or one-shot flag of a widget that has one; a Slider's included
ChangedFlag(w) == IF w.kind = "Slider" THEN w.valueChanged ELSE Flag(w)

\* the step is a call of a setter on a widget with a flag
SetterCalled ==
    /\ Logged
    /\ trace'[Len(trace')].op \in SetterOps
    /\ widgets[trace'[Len(trace')].w].kind # "SensorStatus"

\* C35 as stated: a setter of the sketch neither sets a flag nor clears one a
\* client update has set and the sketch has not read.
C35_SettersKeepFlags ==
    [][SetterCalled =>
          LET e == trace'[Len(trace')]
          IN  ChangedFlag(widgets'[e.w]) = ChangedFlag(widgets[e.w])]_vars

\* C35, amended: no setter sets a flag; Slider.setValue and setRange,
\* Toggle.setState and Button.setState leave the flag as it is, and so does
\* TextBox.setIPAddress with a text that is no address; TextBox.setValue, and
\* setIPAddress with an address, clear the flag, pending or not.
C35_SettersKeepFlagsButTextBox ==
    [][SetterCalled =>
          LET e == trace'[Len(trace')]
              w == widgets[e.w]
          IN  IF w.kind = "TextBox"
                 /\ (e.op = "setValue" \/ TextBox_isValidIPAddress(e.arg))
              THEN ~ChangedFlag(widgets'[e.w])
              ELSE ChangedFlag(widgets'[e.w]) = ChangedFlag(w)]_vars

\* C35 witness: a TextBox took a new text from a client, the sketch called
\* setValue before it read, and the flag is clear.
C35_Witness ==
    /\ Len(trace) >= 2
    /\ Back(1).op = "handleUpdate" /\ Back(0).op = "setValue"
    /\ Back(1).w = Back(0).w
    /\ widgets[Back(0).w].kind = "TextBox"
    /\ widgets[Back(0).w].lastValue # Back(1).arg
    /\ widgets[Back(0).w].textValue = Back(0).arg
    /\ ~widgets[Back(0).w].valueChanged

----------------------------------------------------------------------------
(* The claims about what the page and the get-values requests change *)

\* the step answers the request of the connection with the page
PageServed == Dispatch /\ response'.type = "text/html"

\* widget i is registered, its label holds "Save Status" and what it shows
\* holds "saved" or "Saving"
ShowsSaved(i) ==
    /\ \E k \in 1..Len(elements) : elements[k] = i
    /\ IndexOf(widgets[i].label, Chars_SaveStatus) >= 0
    /\ \/ IndexOf(getValue(widgets[i]), Chars_saved) >= 0
       \/ IndexOf(getValue(widgets[i]), Chars_Saving) >= 0

\* C36: a page request changes the widgets only by the save-status reset: an
\* element whose label holds "Save Status" and whose value holds "saved" or
\* "Saving" gets handleUpdate("Ready to save settings") before the page is
\* rendered, and every other widget is as it was, under handleRoot and under
\* streamHTML alike.
C36_PageResetsSaveStatusOnly ==
    [][PageServed =>
          /\ \A i \in 1..Len(widgets) :
                widgets'[i] = IF ShowsSaved(i)
                              THEN handleUpdate(widgets[i], Chars_Ready, millis)
                              ELSE widgets[i]
          /\ Len(widgets') = Len(widgets) /\ elements' = elements
          /\ response'.body =
                IF platform = "STREAM"
                THEN streamHTML(pageTitle, pageHeading, elements, widgets')
                ELSE generateHTML(pageTitle, pageHeading, customCSS, useCustomStyles,
                                  elements, widgets')]_vars

\* C36 witness: the page was served with two elements registered, a status
\* display that showed "saved" and shows "Ready to save settings", and a
\* Toggle that is on with its flag pending.
C36_Witness ==
    /\ client = "closed"
    /\ response.type = "text/html"
    /\ Len(elements) = 2
    /\ \E i, j \in 1..Len(widgets) :
          /\ widgets[i].kind = "SensorStatus" /\ getValue(widgets[i]) = Chars_Ready
          /\ widgets[j].kind = "Toggle" /\ widgets[j].state /\ widgets[j].stateChanged

\* the step dispatches a get-values request, or answers the request of the
\* connection as one
ValuesServed == Dispatch /\ (GetSent \/ response'.type = "application/json")

\* the body of a get-values response for the widgets ws: the members in the
\* order of registration, each the identifier and getValue() in quotes
RECURSIVE ValuesBody(_, _)
ValuesBody(k, ws) ==
    IF k > Len(elements) THEN <<>>
    ELSE (IF k > 1 THEN <<",">> ELSE <<>>)
         \o <<"\"">> \o ws[elements[k]].id \o <<"\"", ":", "\"">>
         \o getValue(ws[elements[k]]) \o <<"\"">> \o ValuesBody(k + 1, ws)

\* C37: a get-values request only reads: its dispatch leaves every widget,
\* flags included, the registry and the page settings as they were, and its
\* body is a function of that state alone, so that a second request with
\* nothing in between (the exchange ends, the next client connects: neither
\* touches a widget) returns the same body.
C37_GetReadsOnly ==
    [][/\ ValuesServed =>
            /\ widgets' = widgets
            /\ UNCHANGED <<elements, nextID, page, persistent, millis>>
            /\ response'.type = "application/json"
            /\ response'.body = <<"{">> \o ValuesBody(1, widgets') \o <<"}">>
       /\ (client # "waiting" /\ client' # client) =>
            UNCHANGED <<widgets, elements>>]_vars

\* C37 witness: a get-values request was answered while a registered Toggle
\* had its flag pending, and the flag is still pending.
C37_Witness ==
    /\ client = "closed"
    /\ response.type = "application/json"
    /\ \E k \in 1..Len(elements) :
          /\ widgets[elements[k]].kind = "Toggle"
          /\ widgets[elements[k]].stateChanged

----------------------------------------------------------------------------
(* The claims about the client that is slow or goes away *)

\* the bytes hold a blank line: a line end with nothing but carriage returns
\* between it and the line end before it, or the start
BlankLineIn(bytes) ==
    \E n \in 1..Len(bytes) :
        /\ bytes[n] = "\n"
        /\ \E from \in 0..(n - 1) :
              /\ from = 0 \/ bytes[from] = "\n"
              /\ \A m \in (from + 1)..(n - 1) : bytes[m] = "\r"

\* C38: on the streaming boards a request takes effect only at the dispatch
\* that follows the blank line: the arrival of a request changes no widget
\* and writes nothing, and when the client went away before the blank line,
\* a complete /set request line delivered or not, update() calls no
\* handleUpdate, writes no response and closes the connection.
C38_NoBlankLineNoEffect ==
    [][platform = "STREAM" =>
          /\ (client = "none" /\ client' = "waiting") =>
                (widgets' = widgets /\ response' = NoResponse)
          /\ (Dispatch /\ ~BlankLineIn(inbound.bytes)) =>
                /\ widgets' = widgets
                /\ response' = NoResponse
                /\ client' = "closed"]_vars

\* C38 witness: the client sent the request line of a /set request for a
\* registered Toggle and went away; the connection is closed, nothing was
\* written and the Toggle is off.
C38_Witness ==
    /\ platform = "STREAM"
    /\ client = "closed"
    /\ inbound.bytes \in CutRequests
    /\ response = NoResponse
    /\ \E k \in 1..Len(elements) :
          /\ widgets[elements[k]].kind = "Toggle"
          /\ HasPrefix(SentQuery, widgets[elements[k]].id \o <<"=", "1">>)
          /\ ~widgets[elements[k]].state /\ ~widgets[elements[k]].stateChanged

(* processClient byte by byte: the sketch's loop(), one client and its socket *)

\* the sketch of the stall: one Toggle
StallTemplates == {Template("Toggle", Label_plain, 0, 0, 0)}

\* what the client means to send: a set-value request, a get-values request,
\* a page request
StallRequests ==
    {RequestBytes(Path_set \o <<"?">> \o ElementID(0) \o <<"=", "1">>, <<>>),
     RequestBytes(Path_get, <<>>),
     RequestBytes(<<"/">>, <<>>)}

\* a client connects to the server, which the sketch starts when its widgets
\* are registered, and means to send bytes
Arrive(bytes) ==
    /\ client = "none"
    /\ elements # <<>>
    /\ reader.pc = "sketch"
    /\ client' = "waiting"
    /\ inbound' = [route |-> "", args |-> <<>>, bytes |-> bytes]
    /\ response' = NoResponse
    /\ reader' = [NoReader EXCEPT !.connected = TRUE, !.wire = bytes]
    /\ UNCHANGED <<persistent, page, backlog, platform, wifi, widgets, nextID, elements,
                   millis, trace>>

\* the next byte of the client reaches the board
Deliver ==
    /\ reader.connected
    /\ reader.wire # <<>>
    /\ reader' = [reader EXCEPT !.wire = Tail(reader.wire),
                                !.buffer = Append(reader.buffer, Head(reader.wire))]
    /\ UNCHANGED <<persistent, page, backlog, platform, wifi, widgets, nextID, elements,
                   millis, connection, trace>>

\* the client goes away; what it had not sent is never sent
Disconnect ==
    /\ reader.connected
    /\ reader' = [reader EXCEPT !.connected = FALSE, !.wire = <<>>]
    /\ UNCHANGED <<persistent, page, backlog, platform, wifi, widgets, nextID, elements,
                   millis, connection, trace>>

\* update() is called and server->available() returns the client:
\* processClient enters its loop with the two strings empty
Accept ==
    /\ reader.pc = "sketch"
    /\ client = "waiting"
    /\ reader' = [reader EXCEPT !.pc = "reading", !.currentLine = <<>>, !.httpRequest = <<>>]
    /\ UNCHANGED <<persistent, page, backlog, platform, wifi, widgets, nextID, elements,
                   millis, connection, trace>>

\* processClient gives up on a client that is connected and has nothing to read
Leave_timeout ==
    /\ reader.pc = "reading"
    /\ reader.buffer = <<>>
    /\ reader' = NoReader
    /\ client' = "closed"
    /\ response' = NoResponse
    /\ UNCHANGED <<persistent, page, backlog, platform, wifi, widgets, nextID, elements,
                   millis, inbound, trace>>

\* the loop condition client.connected() fails: the client is gone and
\* nothing is left to read; client.stop() and the return of update()
Leave ==
    /\ reader.pc = "reading"
    /\ ~reader.connected
    /\ reader.buffer = <<>>
    /\ reader' = NoReader
    /\ client' = "closed"
    /\ response' = NoResponse
    /\ UNCHANGED <<persistent, page, backlog, platform, wifi, widgets, nextID, elements,
                   millis, inbound, trace>>

\* one pass of the loop with client.available(): the byte is read and, at a
\* line end with the current line empty, the request is dispatched, the
\* connection stopped and update() returns
ReadByte ==
    /\ reader.pc = "reading"
    /\ reader.buffer # <<>>
    /\ LET c == Head(reader.buffer)
           httpRequest == Append(reader.httpRequest, c)
           branch == Classify(httpRequest)
       IN  IF c = "\n" /\ Len(reader.currentLine) = 0
           THEN /\ IF branch = "set"
                   THEN /\ widgets' = handleSetRequest(httpRequest, elements, widgets, millis)
                        /\ response' = Response("text/plain", Chars_OK)
                   ELSE IF branch = "get"
                   THEN /\ response' = Response("application/json",
                                                generateGetResponse(elements, widgets))
                        /\ UNCHANGED widgets
                   ELSE /\ widgets' = SaveStatusReset(elements, widgets, 1, millis)
                        /\ response' = Response("text/html",
                                                streamHTML(pageTitle, pageHeading, elements,
                                                           widgets'))
                /\ reader' = NoReader
                /\ client' = "closed"
           ELSE /\ reader' = [reader EXCEPT
                                 !.buffer = Tail(reader.buffer),
                                 !.httpRequest = httpRequest,
                                 !.currentLine = IF c = "\n" THEN <<>>
                                                 ELSE IF c # "\r" THEN Append(reader.currentLine, c)
                                                 ELSE reader.currentLine]
                /\ UNCHANGED <<widgets, response, client>>
    /\ UNCHANGED <<persistent, page, backlog, platform, wifi, nextID, elements, millis,
                   inbound, trace>>

\* the rest of loop(), once update() has returned: the sketch reads the flags
\* of its widgets
LoopBody ==
    /\ reader.pc = "sketch"
    /\ widgets # <<>>
    /\ widgets' = ReadAll(widgets)
    /\ trace' = <<Event("poll", 0, <<>>, ReadResults(widgets))>>
    /\ UNCHANGED <<persistent, page, backlog, board, nextID, elements, millis, connection>>

InitStall == Init /\ platform = "STREAM"

NextStall ==
    \/ \E t \in StallTemplates : widgets = <<>> /\ Construct(t)
    \/ \E i \in 1..Len(widgets) : addElement(i)
    \/ \E bytes \in StallRequests : Arrive(bytes)
    \/ Deliver
    \/ Disconnect
    \/ Accept
    \/ ReadByte
    \/ Leave
    \/ LoopBody
    \/ Finish

\* the step is a pass of the loop of processClient that reads a byte
ReadsByte ==
    /\ reader.pc = "reading"
    /\ reader.buffer # <<>>
    /\ \/ reader' = NoReader
       \/ reader' = [reader EXCEPT
                       !.buffer = Tail(reader.buffer),
                       !.httpRequest = Append(reader.httpRequest, Head(reader.buffer)),
                       !.currentLine =
                           IF Head(reader.buffer) = "\n" THEN <<>>
                           ELSE IF Head(reader.buffer) # "\r"
                                THEN Append(reader.currentLine, Head(reader.buffer))
                                ELSE reader.currentLine]

\* the step is the end of the loop of processClient for a client that is gone
LeavesLoop ==
    /\ reader.pc = "reading"
    /\ ~reader.connected
    /\ reader.buffer = <<>>
    /\ reader' = NoReader

\* the processor runs: inside processClient the loop goes on; the client owes
\* nothing, neither a byte nor its departure
SpecStall == InitStall /\ [][NextStall]_vars /\ WF_reader(ReadsByte) /\ WF_reader(LeavesLoop)

\* update() is inside processClient
Reading == reader.pc = "reading"

\* what the client has delivered to the board since it was accepted
Delivered == reader.httpRequest \o reader.buffer

\* C39: update() returns for every accepted client that has delivered its
\* blank line or has gone away, and for no other: it leaves processClient
\* only on reading a blank line or with the client gone and nothing left to
\* read; while the client is connected and has delivered neither, every step
\* leaves update() inside processClient, and as long as it is inside no code
\* of the sketch runs and no widget changes but by the dispatch that ends it.
C39_ReturnsOnBlankLineOrDisconnect ==
    /\ (Reading /\ (~reader.connected \/ BlankLineIn(Delivered))) ~> ~Reading
    /\ [][(Reading /\ ~reader'.pc = "reading") =>
            \/ /\ reader.buffer # <<>>
               /\ BlankLineIn(Append(reader.httpRequest, Head(reader.buffer)))
            \/ ~reader.connected /\ reader.buffer = <<>>]_vars
    /\ [][(Reading /\ reader.connected /\ ~BlankLineIn(Delivered)) =>
            (reader'.pc = "reading" \/ BlankLineIn(Delivered'))]_vars
    /\ [][Reading => (trace' = trace /\ (widgets' # widgets => reader'.pc = "sketch"))]_vars

\* C39 witness: the stall: update() is inside processClient, the client is
\* connected, has sent its request line and nothing since, and has more to
\* send.
C39_Witness ==
    /\ Reading
    /\ reader.connected
    /\ reader.buffer = <<>>
    /\ reader.wire # <<>>
    /\ HasSuffix(reader.httpRequest, Chars_HTTP)
    /\ ~BlankLineIn(reader.httpRequest)

====
